---- MODULE Spec2Model ----
(***************************************************************************)
(* A model of the GrantMate question-answering pipeline (src/qa_system.py). *)
(*                                                                         *)
(*   Spec           PHCQASystem.answer_batch, one call from its arguments  *)
(*                  to its return value, over every behaviour of the       *)
(*                  generation backend (searches return short lists).      *)
(*   SpecRetrieval  the same call over every behaviour of the searcher     *)
(*                  (a few representative backend behaviours).             *)
(*   SpecEmbed      VectorSearcher construction: cache lookup, batched     *)
(*                  embedding with per-chunk fallback, cache write.        *)
(*                                                                         *)
(* Numbers with one decimal place (priorities, fit scores) are kept in     *)
(* tenths: 4.0 is 40, 3.5 is 35.                                           *)
(***************************************************************************)
EXTENDS Integers, Sequences, FiniteSets, TLC

VARIABLES
    pc,                 \* where the answer_batch call stands: idle / search / generate / done
    questions,          \* argument: the question list
    top_k,              \* argument
    additional_context, \* argument: the sponsor context
    return_sources,     \* argument
    all_chunks,         \* local of PHCQASystem.answer_batch: the pooled chunks
    seen_chunk_ids,     \* local: the (path, start_line) pairs pooled so far
    question_chunks,    \* local: question -> chunks attributed to it
    searchLog,          \* every searcher.search call so far: its query, top_k and result
    genCalls,           \* number of generate_content calls made in this call
    response,           \* what the generation backend did when it was called
    prompt_chunks,      \* the chunks rendered into the prompt that was sent
    engine_result,      \* what QAEngine.answer_batch returned
    result,             \* what PHCQASystem.answer_batch returned (or that it raised)
    vs_pc,              \* where the VectorSearcher construction stands
    vs_chunks,          \* VectorSearcher.chunks (the chunk ids, in order)
    embeddings,         \* VectorSearcher.embeddings
    pending,            \* local `embeddings` list of _compute_embeddings
    batch_start,        \* loop variable of _compute_embeddings
    cache_file,         \* the cache file under this chunk set's key
    embedCalls,         \* number of embed_content calls made by the current construction
    cacheHit,           \* whether the current construction loaded its embeddings from the cache
    cacheWrites,        \* number of times the current construction opened the cache file for writing
    fn,                 \* the function of a call considered on its own ("none": no such call)
    args,               \* its arguments
    ret                 \* what it returned (NotReturned before it has)

orchVars == <<pc, questions, top_k, additional_context, return_sources, all_chunks,
              seen_chunk_ids, question_chunks, searchLog, genCalls, response,
              prompt_chunks, engine_result, result>>
embedVars == <<vs_pc, vs_chunks, embeddings, pending, batch_start, cache_file,
               embedCalls, cacheHit, cacheWrites>>
callVars == <<fn, args, ret>>
vars == <<orchVars, embedVars, callVars>>

(***************************************************************************)
(* Bounds of the model.                                                    *)
(***************************************************************************)
\* longest question list handed to answer_batch
MaxQuestions == 4

Range(s) == {s[i] : i \in 1..Len(s)}

Min(a, b) == IF a < b THEN a ELSE b

(***************************************************************************)
(* Python values, as far as the code looks at them.  Every value is a      *)
(* record [t, v]: t is the Python type, v the value.                       *)
(*   num   a float or int, in tenths                                       *)
(*   str   a string                                                        *)
(*   none  None (JSON null)                                                *)
(*   list  a non-empty list; v says whether the string 'answers' is one    *)
(*         of its elements (all the code ever asks of a list)              *)
(*   dict  a dict with string keys; v is the function from keys to values  *)
(***************************************************************************)
PyNum(n) == [t |-> "num", v |-> n]
PyStr(s) == [t |-> "str", v |-> s]
PyNone == [t |-> "none", v |-> 0]
PyList(hasAnswers) == [t |-> "list", v |-> hasAnswers]
PyDict(f) == [t |-> "dict", v |-> f]

\* the strings of the universe that contain the substring 'answers'
TextWithAnswers == {"my answers"}

\* Python truthiness: `if x:`
Truthy(x) ==
    CASE x.t = "num" -> x.v # 0
      [] x.t = "str" -> x.v # ""
      [] x.t = "none" -> FALSE
      [] x.t = "list" -> TRUE
      [] x.t = "dict" -> DOMAIN x.v # {}

\* whether `key in x` is defined (it raises TypeError on int, float, None)
Iterable(x) == x.t \in {"dict", "list", "str"}

\* `key in x` for an iterable x
In(key, x) ==
    CASE x.t = "dict" -> key \in DOMAIN x.v
      [] x.t = "list" -> key = "answers" /\ x.v
      [] x.t = "str" -> key = "answers" /\ x.v \in TextWithAnswers

\* dict.get(key, default)
Get(d, key, default) == IF key \in DOMAIN d THEN d[key] ELSE default

\* d with d[key] = val set when key is missing: `if key not in d: d[key] = val`
SetDefault(d, key, val) ==
    IF key \in DOMAIN d THEN d
    ELSE [k \in DOMAIN d \cup {key} |-> IF k = key THEN val ELSE d[k]]

\* additional_context and additional_context.strip()
NonBlank(ctx) == ctx \notin {"", "  "}

(***************************************************************************)
(* The knowledge base: the chunks the searcher holds.  get_chunks can emit *)
(* two chunks of one document with the same start_line (a short chunk      *)
(* whose overlap seed is the whole chunk), so two chunks share their       *)
(* (path, start_line) here.                                                *)
(***************************************************************************)
Chunk(p, s, c, pr) == [path |-> p, start_line |-> s, content |-> c, priority |-> pr]

KBChunks ==
    { Chunk("quantitative/impact.md", 0, "c1", 40),
      Chunk("quantitative/impact.md", 0, "c2", 40),
      Chunk("contact/address.md", 0, "c3", 10) }

\* the paths of the knowledge base in the order sorted() puts them
PathOrder == <<"contact/address.md", "quantitative/impact.md">>

\* sorted(list(paths)) for a set of paths
RECURSIVE SortedFrom(_, _)
SortedFrom(i, paths) ==
    IF i > Len(PathOrder) THEN <<>>
    ELSE (IF PathOrder[i] \in paths THEN <<PathOrder[i]>> ELSE <<>>)
         \o SortedFrom(i + 1, paths)

Sorted(paths) == SortedFrom(1, paths)

ChunkId(c) == <<c.path, c.start_line>>

\* all sequences of distinct chunks of length n
RECURSIVE DistinctSeqs(_)
DistinctSeqs(n) ==
    IF n = 0 THEN {<<>>}
    ELSE {Append(s, c) : s \in DistinctSeqs(n - 1), c \in KBChunks}
         \ {s \in {Append(s, c) : s \in DistinctSeqs(n - 1), c \in KBChunks} :
              \E i, j \in 1..Len(s) : i # j /\ s[i] = s[j]}

\* what searcher.search(query, k) can return: at most k chunks, no chunk twice
SearchResults(k) ==
    UNION {DistinctSeqs(n) : n \in 0..Min(k, Cardinality(KBChunks))}

(***************************************************************************)
(* The pooling loops of PHCQASystem.answer_batch.                          *)
(***************************************************************************)
\* all_chunks after pooling the result res
RECURSIVE PoolChunks(_, _)
PoolChunks(all, res) ==
    IF res = <<>> THEN all
    ELSE PoolChunks(IF \E i \in 1..Len(all) : ChunkId(all[i]) = ChunkId(Head(res))
                    THEN all ELSE Append(all, Head(res)),
                    Tail(res))

\* the chunks of res that the pooling loop appended to all_chunks, in order
NewlyPooled(all, res) ==
    SubSeq(PoolChunks(all, res), Len(all) + 1, Len(PoolChunks(all, res)))

IdsOf(all) == {ChunkId(all[i]) : i \in 1..Len(all)}

\* combined query: a pooled chunk goes to every question (inside the `if`)
AttributeCombined(qc, all, res) ==
    [q \in DOMAIN qc |-> qc[q] \o NewlyPooled(all, res)]

\* AttributeOwn giving the chunks to every question
AttributeOwnToAll(qc, question, res) ==
    [q \in DOMAIN qc |-> qc[q] \o res]

\* an individual search: every returned chunk goes to its own question
AttributeOwn(qc, question, res) ==
    [q \in DOMAIN qc |-> IF q = question THEN qc[q] \o res ELSE qc[q]]

NoInfoAnswer == "No relevant information found in the knowledge base."

(***************************************************************************)
(* QAEngine: the size of the prompt and the shortening loop.  A prompt is  *)
(* measured in characters: one per question, four per chunk section, two   *)
(* for a sponsor-context section.  The limits of the code (1,000,000       *)
(* tokens, at least 10 chunks kept, 50 attempts) are scaled to the size of *)
(* the knowledge base of the model.                                        *)
(***************************************************************************)
\* QAEngine.max_context_tokens, scaled down
MaxContextTokens == 4
\* the chunk floor of the shortening loop, scaled down
MinKeptChunks == 1
\* max_attempts of the shortening loop, scaled down
MaxAttempts == 2

\* len(build_prompt(questions, chunks, additional_context))
PromptChars(qs, chunks, ctx) ==
    Len(qs) + 4 * Len(chunks) + (IF NonBlank(ctx) THEN 2 ELSE 0)

count_tokens(chars) == chars \div 2

HighFirst(chunks) ==
    SelectSeq(chunks, LAMBDA c : c.priority >= 40)
    \o SelectSeq(chunks, LAMBDA c : c.priority < 40)

RECURSIVE ReduceChunks(_, _, _, _)
ReduceChunks(qs, reduced, ctx, attempt) ==
    IF /\ count_tokens(PromptChars(qs, reduced, ctx)) > MaxContextTokens
       /\ attempt < MaxAttempts
       /\ Len(reduced) > MinKeptChunks
    THEN ReduceChunks(qs, SubSeq(reduced, 1, Len(reduced) - 1), ctx, attempt + 1)
    ELSE reduced

\* whether answer_batch enters its shortening branch
OverBudget(qs, chunks, ctx) ==
    count_tokens(PromptChars(qs, chunks, ctx)) > MaxContextTokens

\* the chunk list of the prompt that is sent to the backend
PromptChunks(qs, chunks, ctx) ==
    IF OverBudget(qs, chunks, ctx)
    THEN ReduceChunks(qs, HighFirst(chunks), ctx, 0)
    ELSE chunks

(***************************************************************************)
(* The generation backend.  It raises (with a message), or returns a text: *)
(* a payload in a wrapping.                                                *)
(*   bare         the payload alone                                        *)
(*   padded       the payload between whitespace that str.strip() removes  *)
(*                and json.loads rejects (form feed, no-break space)       *)
(*   fence_json   prose, then the payload between ```json and ```          *)
(*   fence_plain  prose, then the payload between ``` and ```              *)
(*   fence_open   ```json and the payload, the closing fence missing       *)
(* The payload is a JSON value, or text that is no JSON (garbled), or no   *)
(* JSON although it starts with { and ends with } (garbled_braces).        *)
(***************************************************************************)
Absent == [t |-> "absent", v |-> 0]
Garbled == [t |-> "garbled", v |-> 0]
GarbledBraces == [t |-> "garbled_braces", v |-> 0]

RaiseMessages ==
    {"429 Too Many Requests", "quota exceeded for metric", "Rate Limit reached",
     "Connection reset"}

\* '429' in msg or 'quota' in msg.lower() or 'rate limit' in msg.lower()
IsQuotaMessage(msg) ==
    msg \in {"429 Too Many Requests", "quota exceeded for metric", "Rate Limit reached"}

Wraps == {"bare", "padded", "fence_json", "fence_plain", "fence_open"}

AnswerMap(keys) == PyDict([k \in keys |-> PyStr("answer text")])

\* the key sets a backend-made answers object may have: the questions, one
\* question missing, one key too many, none
AnswerKeySets(qs) ==
    {Range(qs), Range(qs) \ {qs[1]}, Range(qs) \cup {"other"}, {}}

FitScoreValues == {PyNum(0 - 10), PyNum(0), PyNum(35), PyNum(70), PyStr("high")}
TailoringValues == {PyStr(""), PyStr("tailored")}
FitExplanationValues == {PyStr("fits")}

\* the object with key 'answers' and the optional keys that are not Absent
FourKeyObject(av, fs, te, fe) ==
    PyDict([k \in {"answers"}
                  \cup (IF fs = Absent THEN {} ELSE {"fit_score"})
                  \cup (IF te = Absent THEN {} ELSE {"tailoring_explanation"})
                  \cup (IF fe = Absent THEN {} ELSE {"fit_explanation"}) |->
              CASE k = "answers" -> av
                [] k = "fit_score" -> fs
                [] k = "tailoring_explanation" -> te
                [] k = "fit_explanation" -> fe])

\* what the backend may put under 'answers': an answers object, a string, or a
\* four-key object again
AnswersValues(qs) ==
    {AnswerMap(K) : K \in AnswerKeySets(qs)}
    \cup {PyStr("text"),
          FourKeyObject(AnswerMap(Range(qs)), PyNum(40), PyStr("tailored"), PyStr("fits"))}

JsonPayloads(qs) ==
    {AnswerMap(K) : K \in AnswerKeySets(qs)}
    \cup {FourKeyObject(av, fs, te, fe) :
            av \in AnswersValues(qs), fs \in FitScoreValues \cup {Absent},
            te \in TailoringValues \cup {Absent}, fe \in FitExplanationValues \cup {Absent}}
    \cup {PyNum(5), PyNone, PyStr("text"), PyStr("my answers"), PyList(FALSE), PyList(TRUE)}

Raises(m) == [kind |-> "raise", msg |-> m, wrap |-> "bare", payload |-> Absent]
Returns(w, p) == [kind |-> "text", msg |-> "", wrap |-> w, payload |-> p]

\* every behaviour of the backend for one generate_content call
Responses(qs) ==
    {Raises(m) : m \in RaiseMessages}
    \cup {Returns(w, p) : w \in Wraps, p \in JsonPayloads(qs) \cup {Garbled, GarbledBraces}}

\* a few behaviours: an error, no JSON, the answers object asked for, a four-key
\* object, an answers object with a wrong key set
SampleResponses(qs) ==
    { Raises("Connection reset"),
      Returns("bare", Garbled),
      Returns("bare", AnswerMap(Range(qs))),
      Returns("fence_json", AnswerMap(Range(qs) \cup {"other"})),
      Returns("bare", FourKeyObject(AnswerMap(Range(qs)), PyNum(35), PyStr("tailored"),
                                    PyStr("fits"))),
      Returns("bare", FourKeyObject(AnswerMap(Range(qs)), PyStr("high"), PyStr("tailored"),
                                    Absent)) }

IsJson(p) == p.t \in {"num", "str", "none", "list", "dict"}


(***************************************************************************)
(* QAEngine.answer_batch after the backend call: the answer extraction.    *)
(* A step of it either yields a value or raises inside the outer try.      *)
(***************************************************************************)
Value(x) == [raised |-> FALSE, msg |-> "", value |-> x]
Raised(m) == [raised |-> TRUE, msg |-> m, value |-> PyNone]

\* the per-question error map
ErrorAnswers(qs, text) == PyDict([q \in Range(qs) |-> PyStr(text)])

\* a four-key dict built by the code
FourKeys(answers, te, fs, fe) ==
    PyDict([k \in {"answers", "tailoring_explanation", "fit_score", "fit_explanation"} |->
              CASE k = "answers" -> answers
                [] k = "tailoring_explanation" -> PyStr(te)
                [] k = "fit_score" -> PyNum(fs)
                [] k = "fit_explanation" -> PyStr(fe)])

\* the three `if key not in d: d[key] = default` statements
FillDefaults(d, fe, te) ==
    SetDefault(SetDefault(SetDefault(d, "fit_score", PyNum(0)),
                          "fit_explanation", PyStr(fe)),
               "tailoring_explanation", PyStr(te))

\* the parsed value is no dict but 'answers' in it holds (a list or a string):
\* unless it also holds the three other keys, the item assignment raises
FillDefaultsRaises(j) == j.t # "dict"

\* json.loads(response.text) succeeded: the shape handling of the direct path
DirectShape(j, include) ==
    IF ~Iterable(j) THEN Raised("argument of type is not iterable")
    ELSE IF include
    THEN IF In("answers", j)
         THEN IF FillDefaultsRaises(j)
              THEN Raised("object does not support item assignment")
              ELSE Value(PyDict(FillDefaults(j.v,
                       "No fit analysis available - sponsor context was not sufficient",
                       "Responses were tailored based on the sponsor context provided")))
         ELSE Value(FourKeys(j, "Responses were tailored based on the sponsor context provided",
                             35, "Unable to provide detailed fit analysis"))
    ELSE IF In("answers", j)
         THEN IF j.t = "dict" THEN Value(j.v["answers"])
              ELSE Raised("indices must be integers")
         ELSE Value(j)

\* json.loads of a fenced block succeeded: the shape handling of both fence branches
FencedShape(j, include) ==
    IF ~Iterable(j) THEN Raised("argument of type is not iterable")
    ELSE IF include /\ In("answers", j)
    THEN IF FillDefaultsRaises(j)
         THEN Raised("object does not support item assignment")
         ELSE Value(PyDict(FillDefaults(j.v, "No fit analysis available.",
                                        "Responses were tailored based on sponsor context.")))
    ELSE IF include
    THEN Value(FourKeys(j, "Responses were tailored based on sponsor context.", 0,
                        "No fit analysis available."))
    ELSE IF In("answers", j)
         THEN IF j.t = "dict" THEN Value(j.v["answers"])
              ELSE Raised("indices must be integers")
         ELSE Value(j)

\* last resort: an error for each question
LastResort(qs, include) ==
    IF include
    THEN FourKeys(ErrorAnswers(qs, "Error: Could not parse JSON response"),
                  "Unable to generate tailoring explanation due to parsing error.", 0,
                  "Unable to generate fit analysis due to parsing error.")
    ELSE ErrorAnswers(qs, "Error: Could not parse JSON response")

\* ExceptionResult without the quota branch
ExceptionResultNoQuota(qs, include, msg) ==
    IF include
    THEN FourKeys(ErrorAnswers(qs, "Error: " \o msg),
                  "Unable to generate tailoring explanation due to error.", 0,
                  "Unable to generate fit analysis due to error.")
    ELSE ErrorAnswers(qs, "Error: " \o msg)

\* the outer `except Exception as e`
ExceptionResult(qs, include, msg) ==
    IF include
    THEN IF IsQuotaMessage(msg)
         THEN FourKeys(ErrorAnswers(qs, "Error: API quota exceeded"),
                       "Unable to generate tailoring explanation due to API error.", 0,
                       "Unable to generate fit analysis due to API error.")
         ELSE FourKeys(ErrorAnswers(qs, "Error: " \o msg),
                       "Unable to generate tailoring explanation due to error.", 0,
                       "Unable to generate fit analysis due to error.")
    ELSE IF IsQuotaMessage(msg)
         THEN ErrorAnswers(qs, "Error: API quota exceeded")
         ELSE ErrorAnswers(qs, "Error: " \o msg)

\* json.loads(response.text) succeeds
ParsesDirectly(resp) == resp.wrap = "bare" /\ IsJson(resp.payload)

\* text.startswith('{') and text.endswith('}') and json.loads(text) succeeds, after
\* the direct parse failed: only padding that strip() removes was in the way
ParsesStripped(resp) == resp.wrap = "padded" /\ resp.payload.t = "dict"

\* a fence with its closing fence, so that json_end > json_start
HasClosedFence(resp) == resp.wrap \in {"fence_json", "fence_plain"}

\* the body of the inner try and its `except json.JSONDecodeError` handler
ExtractAnswers(resp, qs, include) ==
    IF ParsesDirectly(resp) THEN DirectShape(resp.payload, include)
    ELSE IF ParsesStripped(resp) THEN Value(resp.payload)
    ELSE IF HasClosedFence(resp)
    THEN IF IsJson(resp.payload) THEN FencedShape(resp.payload, include)
         ELSE Raised("Expecting value: line 1 column 1 (char 0)")
    ELSE Value(LastResort(qs, include))

\* include_tailoring_explanation
IncludeTailoring(ctx) == NonBlank(ctx)

\* what QAEngine.answer_batch returns for a backend behaviour
EngineReturn(resp, qs, ctx) ==
    IF resp.kind = "raise" THEN ExceptionResult(qs, IncludeTailoring(ctx), resp.msg)
    ELSE LET got == ExtractAnswers(resp, qs, IncludeTailoring(ctx))
         IN IF got.raised THEN ExceptionResult(qs, IncludeTailoring(ctx), got.msg)
            ELSE got.value

\* BackendCalls with one call per question
BackendCallsPerQuestion(qs, chunks, ctx) == Len(qs)

\* the generate_content calls QAEngine.answer_batch makes for one batch
BackendCalls(qs, chunks, ctx) == 1


(***************************************************************************)
(* PHCQASystem.answer_batch: its return values.                            *)
(***************************************************************************)
\* a returned value: the response dict with 'answers' and 'sources' (shape
\* "response", its optional keys in fields), or the answers alone (shape "bare")
Returned(shape, answers, sources, fields) ==
    [outcome |-> "returned", shape |-> shape, answers |-> answers,
     sources |-> sources, fields |-> fields]

\* an exception left answer_batch
Raises_(msg) ==
    [outcome |-> "raised", shape |-> msg, answers |-> PyNone, sources |-> <<>>,
     fields |-> <<>>]

NoResult ==
    [outcome |-> "none", shape |-> "", answers |-> PyNone, sources |-> <<>>,
     fields |-> <<>>]

NoResponse == [kind |-> "none", msg |-> "", wrap |-> "bare", payload |-> Absent]

\* the optional keys of the response dict that are given a value
Fields(te, fs, fe, withTe, withFs, withFe) ==
    [k \in (IF withTe THEN {"tailoring_explanation"} ELSE {})
           \cup (IF withFs THEN {"fit_score"} ELSE {})
           \cup (IF withFe THEN {"fit_explanation"} ELSE {}) |->
        CASE k = "tailoring_explanation" -> te
          [] k = "fit_score" -> fs
          [] k = "fit_explanation" -> fe]

\* the `if not all_chunks:` return
NoInfoResult(qs, ctx, rs) ==
    IF rs
    THEN Returned("response", ErrorAnswers(qs, NoInfoAnswer),
                  [q \in Range(qs) |-> <<>>],
                  IF NonBlank(ctx)
                  THEN Fields(PyStr("Unable to tailor responses - no relevant information found"),
                              PyNum(0),
                              PyStr("Unable to assess fit - no relevant information found"),
                              TRUE, TRUE, TRUE)
                  ELSE <<>>)
    ELSE Returned("bare", ErrorAnswers(qs, NoInfoAnswer), <<>>, <<>>)

\* SourcesMap without set() and sorted(): the paths in retrieval order
SourcesMapUnsorted(qs, qc) ==
    [q \in Range(qs) |-> [i \in 1..Len(qc[q]) |-> qc[q][i].path]]

\* sources_map: per question the sorted distinct paths of its chunks
SourcesMap(qs, qc) ==
    [q \in Range(qs) |-> Sorted({qc[q][i].path : i \in 1..Len(qc[q])})]

\* `fit_score > 0.0` is defined for numbers only
Comparable(x) == x.t = "num"

\* the code after qa_engine.answer_batch returned r
PostProcess(r, qs, qc, rs) ==
    LET new == r.t = "dict" /\ "answers" \in DOMAIN r.v
        answers == IF new THEN r.v["answers"] ELSE r
        te == IF new THEN Get(r.v, "tailoring_explanation", PyStr("")) ELSE PyStr("")
        fs == IF new THEN Get(r.v, "fit_score", PyNum(0)) ELSE PyNum(0)
        fe == IF new THEN Get(r.v, "fit_explanation", PyStr("")) ELSE PyStr("")
    IN IF rs \/ Truthy(te)
       THEN IF ~Comparable(fs)
            THEN Raises_("TypeError: '>' not supported")
            ELSE Returned("response", answers, SourcesMap(qs, qc),
                          Fields(te, fs, fe, Truthy(te), fs.v > 0, Truthy(fe)))
       ELSE Returned("bare", answers, <<>>, <<>>)

(***************************************************************************)
(* PHCQASystem.answer_batch as steps: the call, one step per search, and   *)
(* the generation call with everything that follows it.                    *)
(***************************************************************************)
\* the searches a batch makes
SearchesPlanned(qs) == IF Len(qs) > 3 THEN 1 + Min(3, Len(qs)) ELSE Len(qs)

LogEntry(kind, question, k, res) ==
    [kind |-> kind, question |-> question, top_k |-> k, result |-> res]

\* the question lists of the model: q1..qn, and the same with q1 again at the end
QuestionPool == <<"q1", "q2", "q3", "q4", "q5", "q6">>

QuestionLists ==
    {SubSeq(QuestionPool, 1, n) : n \in 1..MaxQuestions}
    \cup {[i \in 1..n |-> IF i = n THEN "q1" ELSE QuestionPool[i]] : n \in 2..MaxQuestions}

Contexts == {"", "  ", "Kaiser Permanente funds health equity"}

Call(qs, k, ctx, rs) ==
    /\ pc = "idle"
    /\ pc' = "search"
    /\ questions' = qs
    /\ top_k' = k
    /\ additional_context' = ctx
    /\ return_sources' = rs
    /\ all_chunks' = <<>>
    /\ seen_chunk_ids' = {}
    /\ question_chunks' = [q \in Range(qs) |-> <<>>]
    /\ searchLog' = <<>>
    /\ genCalls' = 0
    /\ UNCHANGED <<response, prompt_chunks, engine_result, result, embedVars, callVars>>

\* AfterSearch without the `if not all_chunks:` return
AfterSearchAlwaysGenerate(all, log) ==
    IF Len(log) < SearchesPlanned(questions)
    THEN pc' = "search" /\ result' = result
    ELSE pc' = "generate" /\ result' = result

\* after a search: go on searching, return the no-information result, or go on to
\* the generation call
AfterSearch(all, log) ==
    IF Len(log) < SearchesPlanned(questions)
    THEN pc' = "search" /\ result' = result
    ELSE IF all = <<>>
    THEN /\ pc' = "done"
         /\ result' = NoInfoResult(questions, additional_context, return_sources)
    ELSE pc' = "generate" /\ result' = result

SearchCombined(res) ==
    /\ pc = "search"
    /\ Len(questions) > 3
    /\ Len(searchLog) = 0
    /\ all_chunks' = PoolChunks(all_chunks, res)
    /\ seen_chunk_ids' = IdsOf(all_chunks')
    /\ question_chunks' = AttributeCombined(question_chunks, all_chunks, res)
    /\ searchLog' = Append(searchLog, LogEntry("combined", "", top_k * 2, res))
    /\ AfterSearch(all_chunks', searchLog')
    /\ UNCHANGED <<questions, top_k, additional_context, return_sources, genCalls,
                   response, prompt_chunks, engine_result, embedVars, callVars>>

SearchRefine(res) ==
    /\ pc = "search"
    /\ Len(questions) > 3
    /\ Len(searchLog) \in 1..Min(3, Len(questions))
    /\ all_chunks' = PoolChunks(all_chunks, res)
    /\ seen_chunk_ids' = IdsOf(all_chunks')
    /\ question_chunks' = AttributeOwn(question_chunks, questions[Len(searchLog)], res)
    /\ searchLog' = Append(searchLog,
                           LogEntry("refine", questions[Len(searchLog)], top_k \div 2, res))
    /\ AfterSearch(all_chunks', searchLog')
    /\ UNCHANGED <<questions, top_k, additional_context, return_sources, genCalls,
                   response, prompt_chunks, engine_result, embedVars, callVars>>

SearchSingle(res) ==
    /\ pc = "search"
    /\ Len(questions) <= 3
    /\ Len(searchLog) < Len(questions)
    /\ all_chunks' = PoolChunks(all_chunks, res)
    /\ seen_chunk_ids' = IdsOf(all_chunks')
    /\ question_chunks' =
          AttributeOwn(question_chunks, questions[Len(searchLog) + 1], res)
    /\ searchLog' = Append(searchLog,
                           LogEntry("single", questions[Len(searchLog) + 1], top_k, res))
    /\ AfterSearch(all_chunks', searchLog')
    /\ UNCHANGED <<questions, top_k, additional_context, return_sources, genCalls,
                   response, prompt_chunks, engine_result, embedVars, callVars>>

\* the top_k the next search is called with
NextTopK ==
    IF Len(questions) > 3
    THEN IF Len(searchLog) = 0 THEN top_k * 2 ELSE top_k \div 2
    ELSE top_k

\* qa_engine.answer_batch (prompt, shortening, the backend call, the extraction)
\* and the rest of PHCQASystem.answer_batch
Generate(resp) ==
    /\ pc = "generate"
    /\ pc' = "done"
    /\ prompt_chunks' = PromptChunks(questions, all_chunks, additional_context)
    /\ genCalls' = genCalls + BackendCalls(questions, all_chunks, additional_context)
    /\ response' = resp
    /\ engine_result' = EngineReturn(resp, questions, additional_context)
    /\ result' = PostProcess(engine_result', questions, question_chunks, return_sources)
    /\ UNCHANGED <<questions, top_k, additional_context, return_sources, all_chunks,
                   seen_chunk_ids, question_chunks, searchLog, embedVars, callVars>>

OrchInit ==
    /\ pc = "idle"
    /\ questions = <<>>
    /\ top_k = 0
    /\ additional_context = ""
    /\ return_sources = FALSE
    /\ all_chunks = <<>>
    /\ seen_chunk_ids = {}
    /\ question_chunks = <<>>
    /\ searchLog = <<>>
    /\ genCalls = 0
    /\ response = NoResponse
    /\ prompt_chunks = <<>>
    /\ engine_result = PyNone
    /\ result = NoResult

\* the searcher is built before any call; its construction is SpecEmbed's subject
EmbedQuiet ==
    /\ vs_pc = "unbuilt"
    /\ vs_chunks = <<>>
    /\ embeddings = <<>>
    /\ pending = <<>>
    /\ batch_start = 0
    /\ cache_file = [exists |-> FALSE, readable |-> FALSE, embeddings |-> <<>>, chunk_count |-> 0]
    /\ embedCalls = 0
    /\ cacheHit = FALSE
    /\ cacheWrites = 0

\* no function is being called on its own
NotReturned == [outcome |-> "not returned"]
CallQuiet == fn = "none" /\ args = <<>> /\ ret = NotReturned

Init == OrchInit /\ EmbedQuiet /\ CallQuiet

\* every backend behaviour; searches with top_k = 1
Next ==
    \/ \E qs \in QuestionLists, ctx \in Contexts, rs \in BOOLEAN : Call(qs, 1, ctx, rs)
    \/ \E res \in SearchResults(NextTopK) : SearchCombined(res)
    \/ \E res \in SearchResults(NextTopK) : SearchRefine(res)
    \/ \E res \in SearchResults(NextTopK) : SearchSingle(res)
    \/ pc = "generate" /\ \E resp \in Responses(questions) : Generate(resp)

Spec == Init /\ [][Next]_vars

\* every search result with top_k = 2; a few backend behaviours
NextRetrieval ==
    \/ \E qs \in QuestionLists, ctx \in Contexts, rs \in BOOLEAN : Call(qs, 2, ctx, rs)
    \/ \E res \in SearchResults(NextTopK) : SearchCombined(res)
    \/ \E res \in SearchResults(NextTopK) : SearchRefine(res)
    \/ \E res \in SearchResults(NextTopK) : SearchSingle(res)
    \/ pc = "generate" /\ \E resp \in SampleResponses(questions) : Generate(resp)

SpecRetrieval == Init /\ [][NextRetrieval]_vars


(***************************************************************************)
(* VectorSearcher construction: _compute_embeddings with its cache.  The   *)
(* chunks are numbered 1..n; a vector records the chunk whose content it   *)
(* embeds (0: none of this batch) and whether it is the zero vector that   *)
(* stands in for a failed call.  The dimension of a vector is not modelled.*)
(***************************************************************************)
\* most chunks handed to a VectorSearcher
MaxChunks == 3
\* batch_size of _compute_embeddings, scaled down from 100
BatchSize == 2

Vector(i) == [of |-> i, kind |-> "embedded"]
ZeroVector(i) == [of |-> i, kind |-> "zero"]

NoFile == [exists |-> FALSE, readable |-> FALSE, embeddings |-> <<>>, chunk_count |-> 0]
CacheFile(embs, n) == [exists |-> TRUE, readable |-> TRUE, embeddings |-> embs, chunk_count |-> n]
\* a file that open(..., 'wb') created or truncated and pickle.dump did not finish
BrokenFile == [exists |-> TRUE, readable |-> FALSE, embeddings |-> <<>>, chunk_count |-> 0]

\* what _save_embeddings_to_cache can meet: the write succeeds, open() raises and
\* the directory is as before, or pickle.dump raises after open() emptied the file
SaveOutcomes == {"saved", "open_fails", "dump_fails"}

\* the mutation of LoadsFromCache: no file is ever taken from the cache
LoadsFromCacheNever(file) == FALSE

\* _load_embeddings_from_cache returns True: the file exists and pickle.load and the
\* read of its 'embeddings' entry do not raise.  Nothing else of the file is looked at.
LoadsFromCache(file) == file.exists /\ file.readable

\* what one batch call of embed_content can do:
\*   raise         it raises
\*   dict_vectors  {'embedding': [[...], ...]} with n vectors, n >= 1
\*   dict_flat     {'embedding': [x, ...]}: one vector, not a list of vectors
\*   dict_empty    {'embedding': []} or an 'embedding' that is no list
\*   dict_nokey    a dict without 'embedding'
\*   list_vectors  a list of n vectors, n >= 0
\*   other         any other type
BatchOutcomes(size) ==
    {[kind |-> k, n |-> 0] : k \in {"raise", "dict_flat", "dict_empty", "dict_nokey", "other"}}
    \cup {[kind |-> "dict_vectors", n |-> m] : m \in 1..(size + 1)}
    \cup {[kind |-> "list_vectors", n |-> m] : m \in 0..(size + 1)}

\* the batch call raised or the code raised ValueError on its result: the code
\* goes on with one call per chunk of the batch
FallsBack(outcome) == outcome.kind \in {"raise", "dict_empty", "dict_nokey", "other"}

\* the vectors a batch response of m vectors stands for: the first m texts of the
\* batch, then vectors of no text of the batch
ResponseVectors(first, size, m) ==
    [j \in 1..m |-> IF j <= size THEN Vector(first + j - 1) ELSE Vector(0)]

\* the individual calls of the fallback: a vector, or the zero vector when the
\* call raises
FallbackVectors(first, size, indiv) ==
    [j \in 1..size |-> IF indiv[j] = "ok" THEN Vector(first + j - 1)
                       ELSE ZeroVector(first + j - 1)]

\* what one pass of the batch loop appends to `embeddings`
BatchVectors(outcome, first, size, indiv) ==
    IF FallsBack(outcome) THEN FallbackVectors(first, size, indiv)
    ELSE IF outcome.kind = "dict_flat" THEN <<Vector(first)>>
    ELSE ResponseVectors(first, size, outcome.n)

\* _save_embeddings_to_cache: the file it leaves; a failure is only warned about
SavedCache(embs, n, saveOk) ==
    CASE saveOk = "saved" -> CacheFile(embs, n)
      [] saveOk = "open_fails" -> cache_file
      [] saveOk = "dump_fails" -> BrokenFile

\* the end of _compute_embeddings once every batch is done
FinishEmbedding(embs, n, saveOk) ==
    /\ vs_pc' = "ready"
    /\ embeddings' = embs
    /\ cache_file' = SavedCache(embs, n, saveOk)
    /\ cacheWrites' = cacheWrites + 1

\* VectorSearcher(chunks, ...): a new instance over n chunks; _compute_embeddings up
\* to its first embedding call
Construct(n, saveOk) ==
    /\ vs_pc \in {"unbuilt", "ready"}
    /\ vs_pc = "ready" => n = Len(vs_chunks)
    /\ vs_chunks' = [i \in 1..n |-> i]
    /\ embedCalls' = 0
    /\ pending' = <<>>
    /\ batch_start' = 0
    /\ IF LoadsFromCache(cache_file)
       THEN /\ cacheHit' = TRUE
            /\ vs_pc' = "ready"
            /\ embeddings' = cache_file.embeddings
            /\ cache_file' = cache_file
            /\ cacheWrites' = 0
       ELSE /\ cacheHit' = FALSE
            /\ IF n = 0
               THEN /\ vs_pc' = "ready"
                    /\ embeddings' = <<>>
                    /\ cache_file' = SavedCache(<<>>, n, saveOk)
                    /\ cacheWrites' = 1
               ELSE /\ vs_pc' = "embedding"
                    /\ embeddings' = <<>>
                    /\ cache_file' = cache_file
                    /\ cacheWrites' = 0
    /\ UNCHANGED <<orchVars, callVars>>

\* one pass of the batch loop: the batch call, the individual calls if it fell
\* back, and after the last batch the end of _compute_embeddings
EmbedBatch(outcome, indiv, saveOk) ==
    /\ vs_pc = "embedding"
    /\ LET size == Min(BatchSize, Len(vs_chunks) - batch_start)
       IN /\ outcome \in BatchOutcomes(size)
          /\ DOMAIN indiv = 1..size
          /\ pending' = pending \o BatchVectors(outcome, batch_start + 1, size, indiv)
          /\ embedCalls' = embedCalls + 1 + (IF FallsBack(outcome) THEN size ELSE 0)
    /\ batch_start' = batch_start + BatchSize
    /\ IF batch_start' >= Len(vs_chunks)
       THEN FinishEmbedding(pending', Len(vs_chunks), saveOk)
       ELSE /\ vs_pc' = "embedding"
            /\ embeddings' = embeddings
            /\ cache_file' = cache_file
            /\ cacheWrites' = cacheWrites
    /\ UNCHANGED <<vs_chunks, cacheHit, orchVars, callVars>>

InitEmbed == OrchInit /\ EmbedQuiet /\ CallQuiet

IndividualOutcomes == UNION {[1..size -> {"ok", "raise"}] : size \in 1..BatchSize}

NextEmbed ==
    \/ \E n \in 0..MaxChunks, saveOk \in SaveOutcomes : Construct(n, saveOk)
    \/ \E outcome \in BatchOutcomes(BatchSize), indiv \in IndividualOutcomes,
          saveOk \in SaveOutcomes : EmbedBatch(outcome, indiv, saveOk)

SpecEmbed == InitEmbed /\ [][NextEmbed]_vars

(***************************************************************************)
(* The claims about PHCQASystem.answer_batch and QAEngine.answer_batch.    *)
(***************************************************************************)
Paths(chunks) == {chunks[i].path : i \in 1..Len(chunks)}

\* the optional key of the returned response, or its default when it is not there
Effective(key, default) ==
    IF result.shape = "response" /\ key \in DOMAIN result.fields
    THEN result.fields[key] ELSE default

\* C1: the answers map that answer_batch returns has exactly the distinct input
\* questions as its keys, whatever the generation backend did
C1_AnswerKeysAreQuestions ==
    (pc = "done" /\ result.outcome = "returned")
        => /\ result.answers.t = "dict"
           /\ DOMAIN result.answers.v = Range(questions)

\* C2: when retrieval returned a chunk, answer_batch returns and never raises,
\* whatever text the generation backend returned
C2_NeverRaises ==
    (pc = "done" /\ all_chunks # <<>>) => result.outcome = "returned"

\* the generation call raised, or its text is no JSON, directly or in a closed fence
GenerationUnusable ==
    \/ response.kind = "raise"
    \/ /\ response.kind = "text"
       /\ \/ response.payload.t \in {"garbled", "garbled_braces"}
          \/ response.wrap = "fence_open"
          \/ response.wrap = "padded" /\ response.payload.t # "dict"

ExceptionMessages ==
    RaiseMessages \cup {"Expecting value: line 1 column 1 (char 0)",
                        "API quota exceeded", "Could not parse JSON response"}

StartsWithError(x) ==
    x.t = "str" /\ \E m \in ExceptionMessages : x.v = "Error: " \o m

\* the answers map of what QAEngine.answer_batch returned
EngineAnswers ==
    IF NonBlank(additional_context) THEN engine_result.v["answers"] ELSE engine_result

\* C3: when the generation call raises or its output cannot be parsed,
\* QAEngine.answer_batch returns a map of every question to an "Error:" string,
\* "Error: API quota exceeded" for a quota or rate-limit error, with
\* tailoring_explanation, fit_score 0.0 and fit_explanation when sponsor context
\* was supplied
C3_FailureGivesErrorMap ==
    (pc = "done" /\ genCalls > 0 /\ GenerationUnusable)
        => /\ engine_result.t = "dict"
           /\ NonBlank(additional_context)
                => /\ DOMAIN engine_result.v =
                        {"answers", "tailoring_explanation", "fit_score", "fit_explanation"}
                   /\ engine_result.v["fit_score"] = PyNum(0)
                   /\ engine_result.v["tailoring_explanation"].t = "str"
                   /\ engine_result.v["fit_explanation"].t = "str"
           /\ EngineAnswers.t = "dict"
           /\ DOMAIN EngineAnswers.v = Range(questions)
           /\ \A q \in Range(questions) :
                /\ StartsWithError(EngineAnswers.v[q])
                /\ (response.kind = "raise"
                    /\ response.msg \in {"429 Too Many Requests", "quota exceeded for metric",
                                         "Rate Limit reached"})
                      => EngineAnswers.v[q] = PyStr("Error: API quota exceeded")

C3_Witness ==
    /\ pc = "done"
    /\ response.kind = "raise"
    /\ response.msg = "quota exceeded for metric"
    /\ NonBlank(additional_context)
    /\ Len(questions) > 1
    /\ engine_result.v["fit_score"] = PyNum(0)
    /\ \A q \in Range(questions) : EngineAnswers.v[q] = PyStr("Error: API quota exceeded")

AllSearchesEmpty == \A i \in 1..Len(searchLog) : searchLog[i].result = <<>>

\* C4: if every search of the batch returns no chunk, answer_batch makes no
\* generation call, maps every question to the fixed no-information string and,
\* when sources are returned, every question to an empty source list
C4_NoChunksNoGeneration ==
    (Len(searchLog) = SearchesPlanned(questions) /\ pc # "idle" /\ AllSearchesEmpty)
        => /\ pc = "done"
           /\ genCalls = 0
           /\ result.outcome = "returned"
           /\ result.answers = PyDict([q \in Range(questions) |-> PyStr(NoInfoAnswer)])
           /\ return_sources
                => /\ result.shape = "response"
                   /\ result.sources = [q \in Range(questions) |-> <<>>]

C4_Witness ==
    /\ pc = "done"
    /\ Len(questions) > 3
    /\ Len(searchLog) = 4
    /\ AllSearchesEmpty
    /\ return_sources
    /\ genCalls = 0
    /\ result.sources = [q \in Range(questions) |-> <<>>]

ReturnedFor(q) ==
    UNION {Paths(searchLog[i].result) :
             i \in {j \in 1..Len(searchLog) :
                      searchLog[j].kind = "combined" \/ searchLog[j].question = q}}

PathRank(p) == CHOOSE i \in 1..Len(PathOrder) : PathOrder[i] = p

CombinedResult == searchLog[1].result

RefinedFor(q) ==
    UNION {Range(searchLog[i].result) :
             i \in {j \in 1..Len(searchLog) :
                      searchLog[j].kind = "refine" /\ searchLog[j].question = q}}

\* the questions searched individually in a batch of more than 3
SampleQuestions == {questions[i] : i \in 1..3}

C8_BlankContextNoFit ==
    (pc = "done" /\ result.outcome = "returned" /\ ~NonBlank(additional_context))
        => /\ Effective("fit_score", PyNum(0)) = PyNum(0)
           /\ Effective("tailoring_explanation", PyStr("")) = PyStr("")
           /\ Effective("fit_explanation", PyStr("")) = PyStr("")

\* C9: every fit_score answer_batch returns lies in [0, 5]
C9_FitScoreInRange ==
    (pc = "done" /\ result.outcome = "returned")
        => /\ Effective("fit_score", PyNum(0)).t = "num"
           /\ Effective("fit_score", PyNum(0)).v >= 0
           /\ Effective("fit_score", PyNum(0)).v <= 50


(***************************************************************************)
(* The claims about VectorSearcher construction.                           *)
(***************************************************************************)
\* C10: after a construction on a cache miss the embedding array holds exactly one
\* vector per chunk, index-aligned with the chunk list, whatever the backend did
\* per batch
C10_OneVectorPerChunk ==
    (vs_pc = "ready" /\ ~cacheHit)
        => /\ Len(embeddings) = Len(vs_chunks)
           /\ \A i \in 1..Len(vs_chunks) : embeddings[i].of = vs_chunks[i]

\* C11: once a construction has computed and saved the embeddings of a chunk set,
\* the next construction over the same chunk set and cache directory is a cache
\* hit: it ends ready with no embedding call and without opening the cache file
\* for writing, and leaves the file as it was
C11_SavedThenCacheHit ==
    [][(vs_pc = "ready" /\ ~cacheHit /\ cache_file = CacheFile(embeddings, Len(vs_chunks)))
           => /\ vs_pc' = "ready"
              /\ cacheHit'
              /\ embedCalls' = 0
              /\ cacheWrites' = 0
              /\ vs_chunks' = vs_chunks
              /\ cache_file' = cache_file]_vars

\* a second construction that found the file a first one computed and saved
C11_Witness ==
    /\ vs_pc = "ready"
    /\ cacheHit
    /\ Len(vs_chunks) > BatchSize
    /\ Len(embeddings) = Len(vs_chunks)
    /\ embedCalls = 0
    /\ cacheWrites = 0

(***************************************************************************)
(* VectorSearcher._get_cache_path.  The digest is taken as injective, so   *)
(* the cache file's name is the byte stream the digest was fed.  A chunk   *)
(* set is the list of its chunks' (path, content).                         *)
(***************************************************************************)
\* most chunks in a chunk set whose cache path is computed
MaxKeyChunks == 2

\* the paths of the chunk sets considered, in the order of Python's string comparison
KeyPathOrder == <<"a", "ab", "c">>
KeyContents == {"b", "c", "bcc"}
KeyChunks == {[path |-> p, content |-> c] : p \in Range(KeyPathOrder), c \in KeyContents}
KeyChunkSets == UNION {[1..n -> KeyChunks] : n \in 0..MaxKeyChunks}

\* sorted(self.chunks, key=lambda x: x['path']): a stable sort by path
SortedByPath(chunks) ==
    LET WithPath(r) == SelectSeq(chunks, LAMBDA c : c.path = KeyPathOrder[r])
        From[r \in 1..(Len(KeyPathOrder) + 1)] ==
            IF r > Len(KeyPathOrder) THEN <<>> ELSE WithPath(r) \o From[r + 1]
    IN From[1]

\* the bytes content_hash.update() is fed: path, then content, chunk after chunk,
\* with nothing between them
RECURSIVE HashStream(_)
HashStream(chunks) ==
    IF chunks = <<>> THEN ""
    ELSE Head(chunks).path \o Head(chunks).content \o HashStream(Tail(chunks))

_get_cache_path(chunks) == "embeddings_" \o HashStream(SortedByPath(chunks)) \o ".pkl"

InitCacheKey ==
    /\ OrchInit /\ EmbedQuiet
    /\ fn = "_get_cache_path"
    /\ args \in KeyChunkSets \X KeyChunkSets
    /\ ret = NotReturned

\* the two searchers compute their cache paths
CacheKeys ==
    /\ fn = "_get_cache_path"
    /\ ret = NotReturned
    /\ ret' = [outcome |-> "returned",
               value |-> <<_get_cache_path(args[1]), _get_cache_path(args[2])>>]
    /\ UNCHANGED <<fn, args, orchVars, embedVars>>

NextCacheKey == CacheKeys

SpecCacheKey == InitCacheKey /\ [][NextCacheKey]_vars

\* the chunks of a list, with their multiplicities
ChunkCounts(chunks) ==
    [c \in Range(chunks) |-> Cardinality({i \in 1..Len(chunks) : chunks[i] = c})]

\* C12: two chunk sets that differ in a chunk's path or content, or in the number
\* of chunks, get different cache file paths
C12_DifferentSetsDifferentPaths ==
    (fn = "_get_cache_path" /\ ret # NotReturned
        /\ ChunkCounts(args[1]) # ChunkCounts(args[2]))
        => ret.value[1] # ret.value[2]

\* C13: a construction takes its embeddings from the cache file only if the file
\* holds as many vectors as there are chunks and its stored chunk count is that
\* number
C13_CacheHitCountValidated ==
    (vs_pc = "ready" /\ cacheHit)
        => /\ Len(embeddings) = Len(vs_chunks)
           /\ cache_file.chunk_count = Len(vs_chunks)

(***************************************************************************)
(* VectorSearcher.search and _keyword_fallback.  Vectors have two integer  *)
(* components and an integer norm, so every score is a fraction of         *)
(* integers and is compared exactly; floating-point rounding is not        *)
(* modelled.                                                               *)
(***************************************************************************)
\* most chunks in the index searched
MaxIndexed == 3
\* largest top_k asked of search
MaxSearchTopK == 3

Vecs == {<<0, 0>>, <<1, 0>>, <<-1, 0>>, <<3, 4>>, <<4, 3>>}

\* the chunks an index is made of: the vector their content embeds to, their
\* priority, and the whitespace-delimited tokens of their content
IndexedChunks ==
    { [vec |-> <<4, 3>>,  priority |-> 10, tokens |-> {"Health", "equity"}],
      [vec |-> <<3, 4>>,  priority |-> 40, tokens |-> {"health"}],
      [vec |-> <<0, 0>>,  priority |-> 40, tokens |-> {"equity"}],
      [vec |-> <<-1, 0>>, priority |-> 30, tokens |-> {"grant"}],
      [vec |-> <<1, 0>>,  priority |-> 15, tokens |-> {"health", "grant"}] }

\* self.embeddings for self.chunks: one vector per chunk, or what a construction
\* leaves that appended one vector too few or too many, or loaded such a file
EmbeddingsFor(chunks) ==
    LET aligned == [i \in 1..Len(chunks) |-> chunks[i].vec]
    IN {aligned}
       \cup (IF chunks = <<>> THEN {}
             ELSE {Append(aligned, <<1, 0>>), SubSeq(aligned, 1, Len(chunks) - 1)})

ReachableIndexes ==
    UNION {{[chunks |-> cs, embeddings |-> es] : es \in EmbeddingsFor(cs)} :
              cs \in UNION {[1..n -> IndexedChunks] : n \in 0..MaxIndexed}}

\* what the embed_content call for the query can do: raise, return a vector of the
\* index's dimension, return a dict without 'embedding' (no vector), or return a
\* vector of another dimension
QueryEmbeddings ==
    {[kind |-> k, vec |-> <<>>] : k \in {"raise", "no_vector", "wrong_dim"}}
    \cup {[kind |-> "vector", vec |-> v] : v \in Vecs}

QueryTokens == {{"health"}, {"Equity", "health"}, {"budget"}}

\* str.lower on a token
Lower(t) ==
    CASE t = "Health" -> "health"
      [] t = "Equity" -> "equity"
      [] OTHER -> t
LowerAll(tokens) == {Lower(t) : t \in tokens}

Dot(u, v) == u[1] * v[1] + u[2] * v[2]
Norm(v) == CHOOSE n \in 0..5 : n * n = Dot(v, v)

\* a score as a fraction with a positive denominator
Fraction(num, den) == [num |-> num, den |-> den]
Greater(a, b) == a.num * b.den > b.num * a.den
Positive(a) == a.num > 0

_cosine_similarity(vec1, vec2) ==
    IF Norm(vec1) = 0 \/ Norm(vec2) = 0 THEN Fraction(0, 1)
    ELSE Fraction(Dot(vec1, vec2), Norm(vec1) * Norm(vec2))

\* similarity * (1 + priority * 0.1), the priority in tenths
BoostedScore(similarity, priority) ==
    Fraction(similarity.num * (100 + priority), similarity.den * 100)

\* word_overlap * (1 + priority * 0.2)
KeywordScore(word_overlap, priority) ==
    Fraction(word_overlap * (100 + 2 * priority), 100)

\* list.sort(key=lambda x: x[0], reverse=True): by score, highest first, entries of
\* equal score in the order they had
SortByScore(entries) ==
    LET n == Len(entries)
        Before(i, j) == \/ Greater(entries[i].score, entries[j].score)
                        \/ ~Greater(entries[j].score, entries[i].score) /\ i < j
        Rank(i) == Cardinality({j \in 1..n : j # i /\ Before(j, i)}) + 1
    IN [r \in 1..n |-> entries[CHOOSE i \in 1..n : Rank(i) = r]]

\* xs[:top_k] for top_k >= 0
FirstK(xs, k) == SubSeq(xs, 1, Min(k, Len(xs)))

Found(idxs) == [outcome |-> "returned", value |-> idxs]
SearchRaises(e) == [outcome |-> "raised", value |-> e]

\* _keyword_fallback: the positions in self.chunks of the chunks it returns
_keyword_fallback(ix, tokens, k) ==
    LET overlap(i) == Cardinality(LowerAll(tokens) \cap LowerAll(ix.chunks[i].tokens))
        entry(i) == [score |-> KeywordScore(overlap(i), ix.chunks[i].priority), idx |-> i]
        all == [i \in 1..Len(ix.chunks) |-> entry(i)]
        scored_chunks == SelectSeq(all, LAMBDA e : overlap(e.idx) > 0)
        top == FirstK(SortByScore(scored_chunks), k)
    IN Found([r \in 1..Len(top) |-> top[r].idx])

\* the mutation of Ranked: the scored entries are left in index order
RankedUnsorted(ix, qvec) ==
    [i \in 1..Len(ix.embeddings) |->
        [score |-> BoostedScore(_cosine_similarity(qvec, ix.embeddings[i]),
                                ix.chunks[i].priority), idx |-> i]]

\* `similarities` after the sort
Ranked(ix, qvec) == SortByScore(RankedUnsorted(ix, qvec))

\* search(query, top_k): the positions in self.chunks of the chunks it returns, or
\* the exception it raises
search(ix, q, tokens, k) ==
    IF q.kind = "raise" THEN _keyword_fallback(ix, tokens, k)
    ELSE IF ix.embeddings = <<>> THEN Found(<<>>)
    ELSE IF q.kind \in {"no_vector", "wrong_dim"} THEN SearchRaises("ValueError")
    ELSE IF Len(ix.embeddings) > Len(ix.chunks) THEN SearchRaises("IndexError")
    ELSE LET top == FirstK(Ranked(ix, q.vec), k)
             kept == SelectSeq(top, LAMBDA e : Positive(e.score))
         IN Found([r \in 1..Len(kept) |-> kept[r].idx])

InitSearch ==
    /\ OrchInit /\ EmbedQuiet
    /\ fn = "search"
    /\ args \in [index : ReachableIndexes, embedding : QueryEmbeddings,
                 tokens : QueryTokens, top_k : 0..MaxSearchTopK]
    /\ ret = NotReturned

SearchCall ==
    /\ fn = "search"
    /\ ret = NotReturned
    /\ ret' = search(args.index, args.embedding, args.tokens, args.top_k)
    /\ UNCHANGED <<fn, args, orchVars, embedVars>>

NextSearch == SearchCall

SpecSearch == InitSearch /\ [][NextSearch]_vars

(***************************************************************************)
(* The claims about VectorSearcher.search.                                 *)
(***************************************************************************)
\* the boosted score of the chunk at position i of the index searched
ScoreOf(i) ==
    BoostedScore(_cosine_similarity(args.embedding.vec, args.index.embeddings[i]),
                 args.index.chunks[i].priority)

\* C14: when the query embedding succeeds, search returns at most top_k chunks in
\* non-increasing order of boosted score, each with a positive boosted score, no
\* chunk left out scores strictly higher than one returned, and no chunk with a
\* zero-norm vector (or any chunk, for a zero-norm query) is returned
C14_SearchTopKByScore ==
    (fn = "search" /\ ret # NotReturned /\ args.embedding.kind = "vector")
        => /\ ret.outcome = "returned"
           /\ Len(ret.value) <= args.top_k
           /\ \A r \in 1..Len(ret.value) :
                /\ Positive(ScoreOf(ret.value[r]))
                /\ Norm(args.index.embeddings[ret.value[r]]) # 0
                /\ Norm(args.embedding.vec) # 0
                /\ r > 1 => ~Greater(ScoreOf(ret.value[r]), ScoreOf(ret.value[r - 1]))
                /\ \A i \in 1..Min(Len(args.index.chunks), Len(args.index.embeddings)) :
                     i \notin Range(ret.value) => ~Greater(ScoreOf(i), ScoreOf(ret.value[r]))

\* the keyword score of the chunk at position i of the index searched
KeywordScoreOf(i) ==
    KeywordScore(Cardinality(LowerAll(args.tokens) \cap LowerAll(args.index.chunks[i].tokens)),
                 args.index.chunks[i].priority)

\* C15: whenever the query embedding fails (the call raises, or its response
\* carries no vector or one of the wrong dimension), search does not raise and
\* returns at most top_k chunks, each sharing a lower-cased token with the query,
\* in non-increasing order of overlap * (1 + 0.2 * priority)
C15_EmbeddingFailureFallsBack ==
    (fn = "search" /\ ret # NotReturned /\ args.embedding.kind # "vector")
        => /\ ret.outcome = "returned"
           /\ Len(ret.value) <= args.top_k
           /\ \A r \in 1..Len(ret.value) :
                /\ LowerAll(args.tokens) \cap LowerAll(args.index.chunks[ret.value[r]].tokens) # {}
                /\ r > 1 => ~Greater(KeywordScoreOf(ret.value[r]), KeywordScoreOf(ret.value[r - 1]))

(***************************************************************************)
(* KnowledgeBaseLoader.get_chunks on one document.  A text is the sequence *)
(* of its characters; "\n" is the line separator.                          *)
(***************************************************************************)
\* most characters in the document chunked
MaxDocChars == 6
\* largest chunk_size
MaxChunkSize == 4
\* largest overlap
MaxOverlap == 3

DocChars == {"x", " ", "\n"}
Documents == UNION {[1..n -> DocChars] : n \in 0..MaxDocChars}

\* str.split('\n')
RECURSIVE SplitLines(_)
SplitLines(text) ==
    IF \A k \in 1..Len(text) : text[k] # "\n" THEN <<text>>
    ELSE LET k == CHOOSE k \in 1..Len(text) :
                      text[k] = "\n" /\ \A j \in 1..(k - 1) : text[j] # "\n"
         IN <<SubSeq(text, 1, k - 1)>> \o SplitLines(SubSeq(text, k + 1, Len(text)))

\* '\n'.join(lines)
RECURSIVE JoinLines(_)
JoinLines(lines) ==
    IF lines = <<>> THEN <<>>
    ELSE IF Len(lines) = 1 THEN lines[1]
    ELSE lines[1] \o <<"\n">> \o JoinLines(Tail(lines))

\* text[-k:] for k > 0
LastChars(text, k) == IF k >= Len(text) THEN text ELSE SubSeq(text, Len(text) - k + 1, Len(text))

\* bool(text.strip())
StripsToNonEmpty(text) == \E k \in 1..Len(text) : text[k] \notin {" ", "\n"}

TextChunk(content, start_line, end_line) ==
    [content |-> content, start_line |-> start_line, end_line |-> end_line]

\* overlap_lines
OverlapLines(current_chunk, overlap) ==
    IF overlap > 0 THEN SplitLines(LastChars(current_chunk, overlap)) ELSE <<>>

\* the mutation of ChunkStartAfterSplit: the new chunk is said to start one line late
ChunkStartOneLate(i, overlap_lines) == i + 1

\* chunk_start of the chunk begun at line i with the seed overlap_lines
ChunkStartAfterSplit(i, overlap_lines) ==
    IF i - Len(overlap_lines) > 0 THEN i - Len(overlap_lines) ELSE 0

\* the test that closes the current chunk before `line`
Splits(current_chunk, line, chunk_size) ==
    Len(current_chunk) + Len(line) > chunk_size /\ current_chunk # <<>>

\* the loop over enumerate(lines) from line i on (i counts from 0), then the final chunk
RECURSIVE ChunkLoop(_, _, _, _, _, _, _)
ChunkLoop(lines, i, chunks, current_chunk, chunk_start, chunk_size, overlap) ==
    IF i >= Len(lines)
    THEN IF StripsToNonEmpty(current_chunk)
         THEN Append(chunks, TextChunk(current_chunk, chunk_start, Len(lines)))
         ELSE chunks
    ELSE LET line == lines[i + 1]
         IN IF Splits(current_chunk, line, chunk_size)
            THEN LET overlap_lines == OverlapLines(current_chunk, overlap)
                 IN ChunkLoop(lines, i + 1,
                              Append(chunks, TextChunk(current_chunk, chunk_start, i)),
                              JoinLines(overlap_lines) \o <<"\n">> \o line,
                              ChunkStartAfterSplit(i, overlap_lines),
                              chunk_size, overlap)
            ELSE ChunkLoop(lines, i + 1, chunks,
                           IF current_chunk # <<>> THEN current_chunk \o <<"\n">> \o line
                           ELSE line,
                           chunk_start, chunk_size, overlap)

get_chunks(content, chunk_size, overlap) ==
    ChunkLoop(SplitLines(content), 0, <<>>, <<>>, 0, chunk_size, overlap)

InitChunks ==
    /\ OrchInit /\ EmbedQuiet
    /\ fn = "get_chunks"
    /\ args \in [content : Documents, chunk_size : 0..MaxChunkSize, overlap : 0..MaxOverlap]
    /\ ret = NotReturned

GetChunks ==
    /\ fn = "get_chunks"
    /\ ret = NotReturned
    /\ ret' = [outcome |-> "returned",
               value |-> get_chunks(args.content, args.chunk_size, args.overlap)]
    /\ UNCHANGED <<fn, args, orchVars, embedVars>>

NextChunks == GetChunks

SpecChunks == InitChunks /\ [][NextChunks]_vars

(***************************************************************************)
(* The claims about get_chunks.                                            *)
(***************************************************************************)
Covered(i) ==
    \E c \in 1..Len(ret.value) : ret.value[c].start_line <= i /\ i < ret.value[c].end_line

\* C16 as stated: every line index of the document lies in the range
\* [start_line, end_line) of a chunk emitted for it
C16_EveryLineCovered ==
    (fn = "get_chunks" /\ ret # NotReturned)
        => \A i \in 0..(Len(SplitLines(args.content)) - 1) : Covered(i)

\* C16, amended: every line that has a character other than whitespace lies in the
\* range of an emitted chunk, and the lines that lie in none are a whitespace-only
\* tail of the document
C16_NonBlankLinesCovered ==
    (fn = "get_chunks" /\ ret # NotReturned)
        => LET lines == SplitLines(args.content)
           IN \A i \in 0..(Len(lines) - 1) :
                ~Covered(i) => \A j \in i..(Len(lines) - 1) :
                                  ~Covered(j) /\ ~StripsToNonEmpty(lines[j + 1])

\* a document of several lines cut into several chunks, with a seed carried over
C16_Witness ==
    /\ fn = "get_chunks" /\ ret # NotReturned
    /\ Len(ret.value) >= 2
    /\ args.overlap > 0
    /\ Len(SplitLines(args.content)) >= 3
    /\ \E i \in 0..(Len(SplitLines(args.content)) - 1) : ~Covered(i)

\* C17: every emitted chunk is at most chunk_size characters long, unless it is a
\* single line longer than chunk_size
C17_ChunkLengthBounded ==
    (fn = "get_chunks" /\ ret # NotReturned)
        => \A c \in 1..Len(ret.value) :
              \/ Len(ret.value[c].content) <= args.chunk_size
              \/ Len(SplitLines(ret.value[c].content)) = 1

(***************************************************************************)
(* parse_questions (src/main.py) on inputs made of whole lines.  A line is *)
(* one of a few texts, in a letter case, with or without surrounding       *)
(* blanks and after a number of '- ' bullets; a question text is the list  *)
(* of the lines joined into it and the punctuation the final cleanup       *)
(* added.                                                                  *)
(***************************************************************************)
\* most lines in the raw input
MaxLines == 4

DashedLine(body, case, pad, dashes) ==
    [body |-> body, case |-> case, pad |-> pad, dashes |-> dashes]
Line(body, case, pad) == DashedLine(body, case, pad, 0)
BlankLine == Line("", "lower", FALSE)
InputLines ==
    { Line("mission", "cap", FALSE),          \* "What is your mission?"
      Line("mission", "lower", FALSE),        \* "what is your mission?"
      Line("mission", "upper", FALSE),        \* "WHAT IS YOUR MISSION?"
      Line("mission", "cap", TRUE),           \* "  What is your mission?  "
      Line("serve", "cap", FALSE),            \* "How many people do you serve?"
      Line("note", "cap", FALSE),             \* "Note"
      Line("words", "lower", FALSE),          \* "in your own words"
      Line("done", "cap", FALSE),             \* "Done."
      DashedLine("short", "lower", FALSE, 3), \* "- - - why is it"
      BlankLine }
RawInputs == UNION {[1..n -> InputLines] : n \in 0..MaxLines}

\* the characters of a line without its bullets and surrounding blanks; "done_split"
\* is "Done." as the sentence split joins it again
BodyString(piece) ==
    CASE piece.body = "mission" ->
            (CASE piece.case = "cap" -> "What is your mission?"
               [] piece.case = "lower" -> "what is your mission?"
               [] piece.case = "upper" -> "WHAT IS YOUR MISSION?")
      [] piece.body = "serve" ->
            (CASE piece.case = "cap" -> "How many people do you serve?"
               [] piece.case = "lower" -> "how many people do you serve?"
               [] piece.case = "upper" -> "HOW MANY PEOPLE DO YOU SERVE?")
      [] piece.body = "note" ->
            (CASE piece.case = "cap" -> "Note"
               [] piece.case = "lower" -> "note"
               [] piece.case = "upper" -> "NOTE")
      [] piece.body = "words" ->
            (CASE piece.case = "cap" -> "In your own words"
               [] piece.case = "lower" -> "in your own words"
               [] piece.case = "upper" -> "IN YOUR OWN WORDS")
      [] piece.body = "short" ->
            (CASE piece.case = "cap" -> "Why is it"
               [] piece.case = "lower" -> "why is it"
               [] piece.case = "upper" -> "WHY IS IT")
      [] piece.body = "done" ->
            (CASE piece.case = "cap" -> "Done."
               [] piece.case = "lower" -> "done."
               [] piece.case = "upper" -> "DONE.")
      [] piece.body = "done_split" ->
            (CASE piece.case = "cap" -> "Done ."
               [] piece.case = "lower" -> "done ."
               [] piece.case = "upper" -> "DONE .")
RECURSIVE Bullets(_)
Bullets(n) == IF n = 0 THEN "" ELSE "- " \o Bullets(n - 1)
PieceString(piece) == Bullets(piece.dashes) \o BodyString(piece)

\* len(), len(text.split()) and the number of characters that are neither word
\* characters nor blanks, of one piece
PieceLength(piece) ==
    2 * piece.dashes +
    (CASE piece.body = "mission" -> 21
       [] piece.body = "serve" -> 29
       [] piece.body = "note" -> 4
       [] piece.body = "words" -> 17
       [] piece.body = "short" -> 9
       [] piece.body = "done" -> 5
       [] piece.body = "done_split" -> 6)
PieceWords(piece) ==
    piece.dashes +
    (CASE piece.body = "mission" -> 4
       [] piece.body = "serve" -> 6
       [] piece.body = "note" -> 1
       [] piece.body = "words" -> 4
       [] piece.body = "short" -> 3
       [] piece.body = "done" -> 1
       [] piece.body = "done_split" -> 2)
PiecePunctuation(piece) ==
    piece.dashes + (IF piece.body \in {"mission", "serve", "done", "done_split"} THEN 1 ELSE 0)

\* a line as it stands in the normalized input
Piece(line) == [body |-> line.body, case |-> line.case, dashes |-> line.dashes]
\* a line of the line pass: line.strip(), then the prefix patterns, of which the
\* bullet pattern removes one '- '
StripPrefix(line) ==
    [body |-> line.body, case |-> line.case,
     dashes |-> IF line.dashes > 0 THEN line.dashes - 1 ELSE 0]
Text(pieces, suffix) == [pieces |-> pieces, suffix |-> suffix]

\* the string a text stands for
RECURSIVE JoinPieces(_)
JoinPieces(pieces) ==
    IF pieces = <<>> THEN ""
    ELSE IF Len(pieces) = 1 THEN PieceString(pieces[1])
    ELSE PieceString(pieces[1]) \o " " \o JoinPieces(Tail(pieces))
Render(text) == JoinPieces(text.pieces) \o text.suffix

RECURSIVE SumOver(_)
SumOver(numbers) ==
    IF numbers = <<>> THEN 0 ELSE Head(numbers) + SumOver(Tail(numbers))
SumLengths(pieces) == SumOver([i \in 1..Len(pieces) |-> PieceLength(pieces[i])])
\* len(text)
TextLength(text) ==
    IF text.pieces = <<>> THEN 0
    ELSE SumLengths(text.pieces) + Len(text.pieces) - 1 + Len(text.suffix)
\* len(text.split())
WordCount(text) == SumOver([i \in 1..Len(text.pieces) |-> PieceWords(text.pieces[i])])
\* len(text) - len(re.sub(r'[^\w\s]', '', text))
PunctuationCount(text) ==
    SumOver([i \in 1..Len(text.pieces) |-> PiecePunctuation(text.pieces[i])]) + Len(text.suffix)
\* text.endswith('?')
EndsWithQuestionMark(text) ==
    /\ text.pieces # <<>>
    /\ \/ text.suffix = "?"
       \/ text.suffix = "" /\ text.pieces[Len(text.pieces)].body \in {"mission", "serve"}

\* raw.strip() and the collapse of three or more newlines into two: no blank line
\* at either end, no two blank lines in a row
RECURSIVE DropLeadingBlank(_)
DropLeadingBlank(lines) ==
    IF lines # <<>> /\ Head(lines) = BlankLine THEN DropLeadingBlank(Tail(lines)) ELSE lines
RECURSIVE DropTrailingBlank(_)
DropTrailingBlank(lines) ==
    IF lines # <<>> /\ lines[Len(lines)] = BlankLine
    THEN DropTrailingBlank(SubSeq(lines, 1, Len(lines) - 1)) ELSE lines
RECURSIVE CollapseBlank(_)
CollapseBlank(lines) ==
    IF Len(lines) < 2 THEN lines
    ELSE IF lines[1] = BlankLine /\ lines[2] = BlankLine THEN CollapseBlank(Tail(lines))
    ELSE <<lines[1]>> \o CollapseBlank(Tail(lines))
Normalized(raw) == CollapseBlank(DropTrailingBlank(DropLeadingBlank(raw)))

\* clean_question: of all it does, two steps change these texts: one leading '- '
\* is removed, and then a lower-case first letter is made a capital
clean_question(text) ==
    IF text.pieces = <<>> THEN text
    ELSE LET first == text.pieces[1]
             dashes == IF first.dashes > 0 THEN first.dashes - 1 ELSE 0
             case == IF dashes = 0 /\ first.case = "lower" THEN "cap" ELSE first.case
         IN Text(<<[first EXCEPT !.dashes = dashes, !.case = case]>> \o Tail(text.pieces),
                 text.suffix)

\* question.lower().strip(), as a text
LowerStrip(text) ==
    Text([i \in 1..Len(text.pieces) |-> [text.pieces[i] EXCEPT !.case = "lower"]], text.suffix)

\* is_valid_question: at least 10 characters; 3 words or a final '?'; at least half
\* of the characters are word characters or blanks (the formatting words it also
\* rejects are all shorter than 10 characters)
is_valid_question(text) ==
    /\ TextLength(text) >= 10
    /\ WordCount(text) >= 3 \/ EndsWithQuestionMark(text)
    /\ 2 * (TextLength(text) - PunctuationCount(text)) >= TextLength(text)

\* the line starts a new question: it ends with '?', or starts with a capital and
\* has at most 15 words, or starts with a question word
IsNewQuestion(piece) ==
    \/ piece.body \in {"mission", "serve"}
    \/ piece.dashes = 0 /\ (piece.case # "lower" \/ piece.body = "short")

\* the mutation of NotSeen: the candidate is compared by its lower-cased text
NotSeenByKey(question, seen) == LowerStrip(question) \notin seen

\* `question not in seen`: the candidate itself is looked up among the lower-cased keys
NotSeen(question, seen) == question \notin seen

\* the steps shared by every place that finishes a question: clean it, and keep it
\* if it is non-empty, not seen and valid.  The state is <<questions, seen>>.
Finish(st, pieces) ==
    LET question == clean_question(Text(pieces, ""))
    IN IF question.pieces # <<>> /\ NotSeen(question, st[2]) /\ is_valid_question(question)
       THEN <<Append(st[1], question), st[2] \cup {LowerStrip(question)}>>
       ELSE st
FinishIf(st, pieces) == IF pieces # <<>> THEN Finish(st, pieces) ELSE st

\* strategy 1: the loop over the lines, then the last question
RECURSIVE LineLoop(_, _, _)
LineLoop(lines, st, current_question) ==
    IF lines = <<>> THEN FinishIf(st, current_question)
    ELSE LET line == StripPrefix(Head(lines))
         IN IF Head(lines) = BlankLine
            THEN LineLoop(Tail(lines), FinishIf(st, current_question), <<>>)
            ELSE IF IsNewQuestion(line) /\ current_question # <<>>
            THEN LineLoop(Tail(lines), Finish(st, current_question), <<line>>)
            ELSE LineLoop(Tail(lines), st, Append(current_question, line))

\* re.split(r'\n{2,}', normalized): the runs of lines between blank lines
RECURSIVE Segments(_, _)
Segments(lines, current) ==
    IF lines = <<>> THEN <<current>>
    ELSE IF Head(lines) = BlankLine THEN <<current>> \o Segments(Tail(lines), <<>>)
    ELSE Segments(Tail(lines), Append(current, Piece(Head(lines))))

\* strategy 2: every segment is finished as a question
RECURSIVE SegmentLoop(_, _)
SegmentLoop(segments, st) ==
    IF segments = <<>> THEN st
    ELSE SegmentLoop(Tail(segments), FinishIf(st, Head(segments)))

HasBlankLine(lines) == \E i \in 1..Len(lines) : lines[i] = BlankLine
AllPieces(lines) == LET ps == SelectSeq(lines, LAMBDA l : l # BlankLine)
                    IN [i \in 1..Len(ps) |-> Piece(ps[i])]

\* strategy 3: the input is split after every run of '.', '!' and '?' that a blank
\* or the end follows, and a question ends with each such run.  The strategy is
\* reached only when nothing was found, so with no '?' in the input: the sentences
\* end at the '.' of "Done.", which is joined again after a blank.
RECURSIVE SentenceLoop(_, _, _)
SentenceLoop(pieces, st, current_q) ==
    IF pieces = <<>> THEN FinishIf(st, current_q)
    ELSE IF Head(pieces).body = "done"
    THEN SentenceLoop(Tail(pieces),
                      Finish(st, Append(current_q, [Head(pieces) EXCEPT !.body = "done_split"])),
                      <<>>)
    ELSE SentenceLoop(Tail(pieces), st, Append(current_q, Head(pieces)))

\* the final fallback: the whole normalized input, cleaned, if it is valid
WholeInput(st, normalized) ==
    LET cleaned == clean_question(Text(AllPieces(normalized), ""))
    IN IF cleaned.pieces # <<>> /\ is_valid_question(cleaned)
       THEN <<Append(st[1], cleaned), st[2]>>
       ELSE st

\* the mutation of RunsBlocks: the block split runs after every line pass
RunsBlocksAlways(found, normalized) == TRUE

\* `len(questions) <= 1 and '\n\n' in normalized`
RunsBlocks(found, normalized) == Len(found) <= 1 /\ HasBlankLine(normalized)

\* the strategies in their order, with the strategies that ran and the questions
\* after the line pass
Cascade(raw) ==
    LET normalized == Normalized(raw)
        s1 == LineLoop(normalized, <<<<>>, {}>>, <<>>)
        runs2 == RunsBlocks(s1[1], normalized)
        s2 == IF runs2 THEN SegmentLoop(Segments(normalized, <<>>), s1) ELSE s1
        runs3 == s2[1] = <<>>
        s3 == IF runs3 THEN SentenceLoop(AllPieces(normalized), s2, <<>>) ELSE s2
        runs4 == s3[1] = <<>>
        s4 == IF runs4 THEN WholeInput(s3, normalized) ELSE s3
    IN IF normalized = <<>>
       THEN [stages |-> {}, line_pass |-> <<>>, blocks |-> <<>>, sentences |-> <<>>,
             found |-> <<>>]
       ELSE [stages |-> {"lines"} \cup (IF runs2 THEN {"blocks"} ELSE {})
                           \cup (IF runs3 THEN {"sentences"} ELSE {})
                           \cup (IF runs4 THEN {"whole"} ELSE {}),
             line_pass |-> s1[1], blocks |-> s2[1], sentences |-> s3[1],
             found |-> s4[1]]

\* the word list of the final cleanup occurs in the lower-cased text
LooksLikeQuestion(text) ==
    \E i \in 1..Len(text.pieces) :
        text.pieces[i].body \in {"mission", "serve", "short", "done", "done_split"}

\* the final cleanup: the question is cleaned again, and a text of more than 20
\* characters that does not end with '.', '!' or '?' gets a closing '?' or '.'
FinalCleanup(q) ==
    LET text == clean_question(q)
        endsProperly == text.pieces[Len(text.pieces)].body
                            \in {"mission", "serve", "done", "done_split"}
    IN IF TextLength(text) > 20 /\ ~endsProperly
       THEN Text(text.pieces, IF LooksLikeQuestion(text) THEN "?" ELSE ".")
       ELSE text
FinalPass(found) == [i \in 1..Len(found) |-> FinalCleanup(found[i])]

\* parse_questions(raw): the questions as texts
ParsedTexts(raw) == FinalPass(Cascade(raw).found)

RenderAll(texts) == [i \in 1..Len(texts) |-> Render(texts[i])]
parse_questions(raw) == RenderAll(ParsedTexts(raw))

InitParse ==
    /\ OrchInit /\ EmbedQuiet
    /\ fn = "parse_questions"
    /\ args \in RawInputs
    /\ ret = NotReturned

ParseQuestions ==
    /\ fn = "parse_questions"
    /\ ret = NotReturned
    /\ ret' = [outcome |-> "returned", value |-> parse_questions(args),
               keys |-> RenderAll([i \in 1..Len(ParsedTexts(args)) |->
                                       LowerStrip(ParsedTexts(args)[i])]),
               texts |-> ParsedTexts(args),
               stages |-> Cascade(args).stages,
               line_pass |-> Cascade(args).line_pass,
               blocks |-> Cascade(args).blocks,
               sentences |-> Cascade(args).sentences]
    /\ UNCHANGED <<fn, args, orchVars, embedVars>>

NextParse == ParseQuestions

SpecParse == InitParse /\ [][NextParse]_vars

(***************************************************************************)
(* The claims about parse_questions.                                       *)
(***************************************************************************)
\* C18: parse_questions returns no two questions whose lower-cased, trimmed
\* texts are equal
C18_NoDuplicateQuestions ==
    (fn = "parse_questions" /\ ret # NotReturned)
        => \A i, j \in 1..Len(ret.keys) : ret.keys[i] = ret.keys[j] => i = j

\* C21: the strategies of parse_questions are an ordered cascade: the block split
\* runs only after a line pass with at most one question and with a blank line in
\* the normalized input, the sentence split only with no question so far, the
\* whole-input fallback only with still none; and two or more questions of the line
\* pass are returned as they are after the final pass, with nothing added
C21_OrderedCascade ==
    (fn = "parse_questions" /\ ret # NotReturned)
        => /\ "blocks" \in ret.stages
                  => Len(ret.line_pass) <= 1 /\ HasBlankLine(Normalized(args))
           /\ "sentences" \in ret.stages => ret.blocks = <<>>
           /\ "whole" \in ret.stages => ret.sentences = <<>>
           /\ Len(ret.line_pass) >= 2
                  => /\ ret.stages = {"lines"}
                     /\ ret.value = RenderAll(FinalPass(ret.line_pass))

\* the line pass found two questions in an input with a blank line, and no later
\* strategy ran
C21_Witness ==
    /\ fn = "parse_questions" /\ ret # NotReturned
    /\ Len(ret.line_pass) >= 2
    /\ HasBlankLine(Normalized(args))
    /\ ret.stages = {"lines"}
    /\ Len(ret.value) = Len(ret.line_pass)

\* C22: every question parse_questions returns passes is_valid_question as it is
\* returned, and none is shorter than 10 characters
C22_ReturnedQuestionsValid ==
    (fn = "parse_questions" /\ ret # NotReturned)
        => \A i \in 1..Len(ret.texts) :
              /\ is_valid_question(ret.texts[i])
              /\ TextLength(ret.texts[i]) >= 10

(***************************************************************************)
(* Start-up: answer_questions and PHCQASystem.__init__ up to the point     *)
(* where the system is built.  The searcher is built by Construct and      *)
(* EmbedBatch above.                                                       *)
(***************************************************************************)
\* no api_key argument (None), or GEMINI_API_KEY not in the environment
Unset == "<unset>"
ApiKeyArguments == {Unset, "", "key-a"}
Environments == {Unset, "", "key-e"}

\* the mutation of Missing: no key is ever found missing
MissingNever(key) == FALSE

\* `not api_key`
Missing(key) == key \in {Unset, ""}

\* api_key or os.getenv("GEMINI_API_KEY")
EffectiveKey(api_key, env) == IF Missing(api_key) THEN env ELSE api_key

Running(stage) == [outcome |-> "running", stage |-> stage]
StartupRaises(e) == [outcome |-> "raised", value |-> e]

\* answer_questions(questions, api_key): the key test, then PHCQASystem(api_key=...)
\* up to its first backend call
CallAnswerQuestions(api_key, env) ==
    /\ fn = "none"
    /\ fn' = "answer_questions"
    /\ args' = [api_key |-> api_key, env |-> env]
    /\ ret' = IF Missing(EffectiveKey(api_key, env)) THEN StartupRaises("ValueError")
              ELSE Running("searcher")
    /\ UNCHANGED <<orchVars, embedVars>>

\* PHCQASystem(kb_path, api_key): the knowledge base is loaded and chunked, then the
\* key is tested
ConstructSystem(api_key, env) ==
    /\ fn = "none"
    /\ fn' = "PHCQASystem"
    /\ args' = [api_key |-> api_key, env |-> env]
    /\ ret' = IF Missing(EffectiveKey(api_key, env)) THEN StartupRaises("ValueError")
              ELSE Running("searcher")
    /\ UNCHANGED <<orchVars, embedVars>>

\* QAEngine(api_key=api_key) once the searcher is built: its own key test passes
ConstructEngine ==
    /\ fn \in {"answer_questions", "PHCQASystem"}
    /\ ret = Running("searcher")
    /\ vs_pc = "ready"
    /\ ret' = IF Missing(EffectiveKey(args.api_key, args.env)) THEN StartupRaises("ValueError")
              ELSE [outcome |-> "constructed"]
    /\ UNCHANGED <<fn, args, orchVars, embedVars>>

InitStartup == OrchInit /\ EmbedQuiet /\ CallQuiet

NextStartup ==
    \/ \E api_key \in ApiKeyArguments, env \in Environments : CallAnswerQuestions(api_key, env)
    \/ \E api_key \in ApiKeyArguments, env \in Environments : ConstructSystem(api_key, env)
    \/ \E n \in 0..MaxChunks, saveOk \in SaveOutcomes :
          ret = Running("searcher") /\ vs_pc = "unbuilt" /\ Construct(n, saveOk)
    \/ \E outcome \in BatchOutcomes(BatchSize), indiv \in IndividualOutcomes,
          saveOk \in SaveOutcomes : EmbedBatch(outcome, indiv, saveOk)
    \/ ConstructEngine

SpecStartup == InitStartup /\ [][NextStartup]_vars

\* C19: with no api_key argument and GEMINI_API_KEY unset, answer_questions and the
\* construction of PHCQASystem raise ValueError, and no embedding or generation
\* call has been made
C19_NoKeyRaisesBeforeAnyCall ==
    (fn \in {"answer_questions", "PHCQASystem"} /\ args.api_key = Unset /\ args.env = Unset)
        => /\ ret = StartupRaises("ValueError")
           /\ embedCalls = 0
           /\ genCalls = 0
           /\ vs_pc = "unbuilt"

\* the construction of PHCQASystem without any key has raised
C19_Witness ==
    /\ fn = "PHCQASystem"
    /\ args.api_key = Unset /\ args.env = Unset
    /\ ret.outcome = "raised"

(***************************************************************************)
(* KnowledgeBaseLoader._get_folder_priority.  A path is the list of its    *)
(* parts, each a word in lower or upper case; priorities are in tenths.    *)
(***************************************************************************)
\* most parts in a relative path
MaxPathParts == 3

PathWords == {"quantitative", "donations_summary", "qualitative", "grant_example",
              "contact", "notes"}
PathParts == {[word |-> w, case |-> c] : w \in PathWords, c \in {"lower", "upper"}}
RelativePaths == UNION {[1..n -> PathParts] : n \in 1..MaxPathParts}

\* path.lower()
PathLower(path) == [i \in 1..Len(path) |-> [path[i] EXCEPT !.case = "lower"]]

\* `marker in path_lower`: a case-sensitive search for the lower-case marker
ContainsMarker(path_lower, marker) ==
    \E i \in 1..Len(path_lower) : path_lower[i] = [word |-> marker, case |-> "lower"]

_get_folder_priority(path) ==
    LET path_lower == PathLower(path)
    IN IF ContainsMarker(path_lower, "quantitative")
       THEN IF ContainsMarker(path_lower, "donations_summary") THEN 20 ELSE 40
       ELSE IF ContainsMarker(path_lower, "qualitative") THEN 30
       ELSE IF ContainsMarker(path_lower, "grant_example") THEN 20
       ELSE IF ContainsMarker(path_lower, "contact") THEN 10
       ELSE 15

InitPriority ==
    /\ OrchInit /\ EmbedQuiet
    /\ fn = "_get_folder_priority"
    /\ args \in RelativePaths
    /\ ret = NotReturned

GetFolderPriority ==
    /\ fn = "_get_folder_priority"
    /\ ret = NotReturned
    /\ ret' = [outcome |-> "returned", value |-> _get_folder_priority(args)]
    /\ UNCHANGED <<fn, args, orchVars, embedVars>>

NextPriority == GetFolderPriority

SpecPriority == InitPriority /\ [][NextPriority]_vars

\* the path has the word, in any letter case
HasWord(path, w) == \E i \in 1..Len(path) : path[i].word = w

\* C20: the priority is determined by the lower-cased path: 2.0 with both
\* 'quantitative' and 'donations_summary', 4.0 with 'quantitative' alone, else 3.0
\* for 'qualitative', 2.0 for 'grant_example', 1.0 for 'contact', 1.5 otherwise;
\* and no path with the 'donations_summary' marker gets more than 2.0
C20_FolderPriority ==
    (fn = "_get_folder_priority" /\ ret # NotReturned)
        => /\ ret.value =
                (IF HasWord(args, "quantitative") /\ HasWord(args, "donations_summary") THEN 20
                 ELSE IF HasWord(args, "quantitative") THEN 40
                 ELSE IF HasWord(args, "qualitative") THEN 30
                 ELSE IF HasWord(args, "grant_example") THEN 20
                 ELSE IF HasWord(args, "contact") THEN 10
                 ELSE 15)
           /\ HasWord(args, "donations_summary") => ret.value <= 20

(***************************************************************************)
(* QAEngine.build_prompt: the knowledge-base context of the prompt.  A     *)
(* context chunk is known by its place in the list handed in; it has a     *)
(* priority or none.  A context section is its label and its chunk.        *)
(***************************************************************************)
\* most chunks handed to build_prompt
MaxPromptChunks == 4

PromptPriorities == {10, 15, 20, 30, 40}
PromptChunksAt(i) == {[id |-> i]} \cup {[id |-> i, priority |-> p] : p \in PromptPriorities}
ContextChunkLists ==
    UNION {{cs \in [1..n -> UNION {PromptChunksAt(i) : i \in 1..n}] :
               \A i \in 1..n : cs[i].id = i} : n \in 0..MaxPromptChunks}

\* chunk.get('priority', 1)
PriorityOf(chunk) == Get(chunk, "priority", 10)

quantitative_chunks(context_chunks) ==
    SelectSeq(context_chunks, LAMBDA c : PriorityOf(c) >= 40)
\* the mutation of qualitative_chunks: the upper end of the tier is included
qualitative_chunks_closed(context_chunks) ==
    SelectSeq(context_chunks, LAMBDA c : 30 <= PriorityOf(c) /\ PriorityOf(c) <= 40)
qualitative_chunks(context_chunks) ==
    SelectSeq(context_chunks, LAMBDA c : 30 <= PriorityOf(c) /\ PriorityOf(c) < 40)
grant_chunks(context_chunks) ==
    SelectSeq(context_chunks, LAMBDA c : 20 <= PriorityOf(c) /\ PriorityOf(c) < 30)
contact_chunks(context_chunks) ==
    SelectSeq(context_chunks, LAMBDA c : PriorityOf(c) < 20)

prioritized_chunks(context_chunks) ==
    quantitative_chunks(context_chunks) \o qualitative_chunks(context_chunks)
        \o grant_chunks(context_chunks) \o contact_chunks(context_chunks)

source_type(chunk) ==
    IF PriorityOf(chunk) >= 40 THEN "QUANTITATIVE DATA"
    ELSE IF PriorityOf(chunk) >= 30 THEN "QUALITATIVE INFO"
    ELSE IF PriorityOf(chunk) >= 20 THEN "GRANT EXAMPLE"
    ELSE "CONTACT INFO"

\* the context sections of build_prompt, in the order they are joined
context_sections(context_chunks) ==
    LET prioritized == prioritized_chunks(context_chunks)
    IN [k \in 1..Len(prioritized) |->
            [source_type |-> source_type(prioritized[k]), chunk |-> prioritized[k]]]

InitPrompt ==
    /\ OrchInit /\ EmbedQuiet
    /\ fn = "build_prompt"
    /\ args \in ContextChunkLists
    /\ ret = NotReturned

BuildPrompt ==
    /\ fn = "build_prompt"
    /\ ret = NotReturned
    /\ ret' = [outcome |-> "returned", value |-> context_sections(args)]
    /\ UNCHANGED <<fn, args, orchVars, embedVars>>

NextPrompt == BuildPrompt

SpecPrompt == InitPrompt /\ [][NextPrompt]_vars

\* the tiers of the claim: 1 for 4.0 and more, 2 for [3.0, 4.0), 3 for [2.0, 3.0),
\* 4 below 2.0
TierOf(chunk) ==
    IF PriorityOf(chunk) >= 40 THEN 1
    ELSE IF PriorityOf(chunk) >= 30 THEN 2
    ELSE IF PriorityOf(chunk) >= 20 THEN 3
    ELSE 4
TierLabels == <<"QUANTITATIVE DATA", "QUALITATIVE INFO", "GRANT EXAMPLE", "CONTACT INFO">>

\* C23: build_prompt renders every context chunk exactly once, the chunks of a
\* higher tier before those of a lower one, the chunks of one tier in their input
\* order, each under the label of its tier
C23_TieredContext ==
    (fn = "build_prompt" /\ ret # NotReturned)
        => LET out == ret.value
           IN /\ \A i \in 1..Len(args) :
                    Cardinality({k \in 1..Len(out) : out[k].chunk = args[i]}) = 1
              /\ Len(out) = Len(args)
              /\ \A k, l \in 1..Len(out) :
                    k < l => \/ TierOf(out[k].chunk) < TierOf(out[l].chunk)
                             \/ /\ TierOf(out[k].chunk) = TierOf(out[l].chunk)
                                /\ out[k].chunk.id < out[l].chunk.id
              /\ \A k \in 1..Len(out) :
                    out[k].source_type = TierLabels[TierOf(out[k].chunk)]

\* four chunks of four tiers, handed in from the lowest tier to the highest
C23_Witness ==
    /\ fn = "build_prompt" /\ ret # NotReturned
    /\ Len(args) = 4
    /\ \A i \in 1..3 : TierOf(args[i]) > TierOf(args[i + 1])
    /\ ret.value[1].chunk.id = 4
    /\ \E i \in 1..4 : "priority" \notin DOMAIN args[i]

(***************************************************************************)
(* QAEngine.answer_batch up to its backend call, as steps: the first       *)
(* prompt, one step per turn of the shortening loop, the final prompt.     *)
(* The frame of the call is kept in ret.                                   *)
(***************************************************************************)
\* most chunks handed to QAEngine.answer_batch
MaxShortenChunks == 5

ShortenPriorities == {10, 30, 40}
ShortenChunkLists ==
    UNION {{cs \in [1..n -> [id : 1..n, priority : ShortenPriorities]] :
               \A i \in 1..n : cs[i].id = i} : n \in 0..MaxShortenChunks}
ShortenQuestionLists == {SubSeq(QuestionPool, 1, 1), SubSeq(QuestionPool, 1, MaxQuestions)}

Shortening(reduced, attempt) ==
    [outcome |-> "shortening", reduced_chunks |-> reduced, attempt |-> attempt]
FinalPrompt(chunks, ctx, removals) ==
    [outcome |-> "prompt", chunks |-> chunks, additional_context |-> ctx,
     removals |-> removals]

\* the mutation of LoopContinues: without the test that keeps the last chunks
LoopContinuesNoFloor(qs, reduced, ctx, attempt) ==
    /\ count_tokens(PromptChars(qs, reduced, ctx)) > MaxContextTokens
    /\ attempt < MaxAttempts
    /\ Len(reduced) > 0

\* the loop takes another turn: the `while` condition holds and the `break` is not
\* taken
LoopContinues(qs, reduced, ctx, attempt) ==
    /\ count_tokens(PromptChars(qs, reduced, ctx)) > MaxContextTokens
    /\ attempt < MaxAttempts
    /\ Len(reduced) > MinKeptChunks

InitShorten ==
    /\ OrchInit /\ EmbedQuiet
    /\ fn = "QAEngine.answer_batch"
    /\ args \in [questions : ShortenQuestionLists, context_chunks : ShortenChunkLists,
                 additional_context : Contexts]
    /\ ret = NotReturned

\* the first prompt and the token test
FirstPrompt ==
    /\ fn = "QAEngine.answer_batch"
    /\ ret = NotReturned
    /\ ret' = IF OverBudget(args.questions, args.context_chunks, args.additional_context)
              THEN Shortening(HighFirst(args.context_chunks), 0)
              ELSE FinalPrompt(args.context_chunks, args.additional_context, 0)
    /\ UNCHANGED <<fn, args, orchVars, embedVars>>

\* one turn of the loop: reduced_chunks = reduced_chunks[:-1]
DropChunk ==
    /\ fn = "QAEngine.answer_batch"
    /\ ret.outcome = "shortening"
    /\ LoopContinues(args.questions, ret.reduced_chunks, args.additional_context, ret.attempt)
    /\ ret' = Shortening(SubSeq(ret.reduced_chunks, 1, Len(ret.reduced_chunks) - 1),
                         ret.attempt + 1)
    /\ UNCHANGED <<fn, args, orchVars, embedVars>>

\* the loop is left and the prompt is built from what is kept
RebuildPrompt ==
    /\ fn = "QAEngine.answer_batch"
    /\ ret.outcome = "shortening"
    /\ ~LoopContinues(args.questions, ret.reduced_chunks, args.additional_context, ret.attempt)
    /\ ret' = FinalPrompt(ret.reduced_chunks, args.additional_context, ret.attempt)
    /\ UNCHANGED <<fn, args, orchVars, embedVars>>

NextShorten == FirstPrompt \/ DropChunk \/ RebuildPrompt

SpecShorten == InitShorten /\ [][NextShorten]_vars

\* the call runs on: a step is taken whenever one is possible
SpecShortenFair == SpecShorten /\ WF_vars(NextShorten)

\* C24: every chunk the shortening loop drops has the lowest priority of the
\* chunks kept at that moment
C24_DropsLowestPriority ==
    [][(ret.outcome = "shortening" /\ ret'.outcome = "shortening")
          => LET kept == ret.reduced_chunks
                 dropped == kept[Len(kept)]
             IN \A i \in 1..Len(kept) : kept[i].priority >= dropped.priority]_vars

\* what the loop may have done so far: at most max_attempts removals, and never
\* below the floor or the number of chunks it was given
ShorteningWithinLimits ==
    /\ ret.outcome = "shortening"
          => /\ ret.attempt <= MaxAttempts
             /\ Len(ret.reduced_chunks) >= Min(MinKeptChunks, Len(args.context_chunks))
             /\ Len(ret.reduced_chunks) = Len(args.context_chunks) - ret.attempt
    /\ ret.outcome = "prompt"
          => /\ ret.removals <= MaxAttempts
             /\ Len(ret.chunks) >= Min(MinKeptChunks, Len(args.context_chunks))
             /\ Len(ret.chunks) = Len(args.context_chunks) - ret.removals
             /\ ret.additional_context = args.additional_context

\* C25: the shortening loop ends, after at most max_attempts removals; it never
\* leaves fewer chunks than the floor (or than it was given), even when the
\* prompt is still too long; and the final prompt gets the sponsor context as it
\* was handed in
C25_BoundedShortening ==
    /\ [](fn = "QAEngine.answer_batch" => ShorteningWithinLimits)
    /\ <>(ret.outcome = "prompt")

\* the final prompt is still over the budget, with a sponsor context: the loop
\* stopped at the floor, or after max_attempts removals
C25_Witness ==
    /\ fn = "QAEngine.answer_batch"
    /\ ret.outcome = "prompt"
    /\ ret.removals > 0
    /\ NonBlank(args.additional_context)
    /\ OverBudget(args.questions, ret.chunks, args.additional_context)

(***************************************************************************)
(* The search phase of PHCQASystem.answer_batch with the text of its       *)
(* queries.  A question is the list of its words, a word its text and      *)
(* length; the searches return nothing here, as the plan of the searches   *)
(* does not depend on what they return.  The frame of the call is in ret.  *)
(***************************************************************************)
\* longest question list of the search phase
MaxPlanQuestions == 5

Word(text) == [text |-> text]
WordsOf(texts) == [i \in 1..Len(texts) |-> Word(texts[i])]

\* "", "What programs does PHC offer", "Describe housing Health vision dental",
\* "How many people received Housing vision dental hearing services"
PlanQuestions ==
    { <<>>,
      WordsOf(<<"What", "programs", "does", "PHC", "offer">>),
      WordsOf(<<"Describe", "housing", "Health", "vision", "dental">>),
      WordsOf(<<"How", "many", "people", "received", "Housing", "vision", "dental",
                "hearing", "services">>) }
PlanQuestionLists == UNION {[1..n -> PlanQuestions] : n \in 0..MaxPlanQuestions}
PlanTopKs == {1, 3}

\* w.lower()
LowerWord(w) ==
    CASE w.text = "What" -> Word("what")
      [] w.text = "How" -> Word("how")
      [] w.text = "PHC" -> Word("phc")
      [] w.text = "Describe" -> Word("describe")
      [] w.text = "Health" -> Word("health")
      [] w.text = "Housing" -> Word("housing")
      [] OTHER -> w

\* len(w) > 3, for the lower-case words of the model
LongerThan3(w) == w.text \notin {"how", "phc"}

StopWords == {"what", "how", "when", "where", "why", "does", "is", "are", "the", "and",
              "for", "with"}

\* [w for w in q.lower().split() if len(w) > 3 and w not in [...]]
important_words(q) ==
    SelectSeq([i \in 1..Len(q) |-> LowerWord(q[i])],
              LAMBDA w : LongerThan3(w) /\ w.text \notin StopWords)

\* the mutation of TopWords: every important word of the question is taken
TopWordsAll(words) == words

\* important_words[:5]
TopWords(words) == FirstK(words, 5)

\* combined_keywords after the loop over the questions; a keyword is kept with the
\* place of its question in the list
RECURSIVE combined_keywords(_, _)
combined_keywords(qs, i) ==
    IF i > Len(qs) THEN <<>>
    ELSE LET top == TopWords(important_words(qs[i]))
         IN [k \in 1..Len(top) |-> [question |-> i, word |-> top[k].text]]
            \o combined_keywords(qs, i + 1)

\* combined_keywords[:20], the words of the combined query
combined_query(qs) == FirstK(combined_keywords(qs, 1), 20)

SearchCallOf(kind, query, k) == [kind |-> kind, query |-> query, top_k |-> k]
Searching(calls) == [outcome |-> "searching", calls |-> calls]

InitPlan ==
    /\ OrchInit /\ EmbedQuiet
    /\ fn = "PHCQASystem.answer_batch"
    /\ args \in [questions : PlanQuestionLists, top_k : PlanTopKs]
    /\ ret = NotReturned

\* the call starts: no search yet
StartSearching ==
    /\ fn = "PHCQASystem.answer_batch"
    /\ ret = NotReturned
    /\ ret' = Searching(<<>>)
    /\ UNCHANGED <<fn, args, orchVars, embedVars>>

\* more than 3 questions: the search of the combined query
IssueCombined ==
    /\ fn = "PHCQASystem.answer_batch"
    /\ ret.outcome = "searching"
    /\ Len(args.questions) > 3
    /\ ret.calls = <<>>
    /\ ret' = Searching(<<SearchCallOf("combined", combined_query(args.questions),
                                       args.top_k * 2)>>)
    /\ UNCHANGED <<fn, args, orchVars, embedVars>>

\* more than 3 questions: the searches of questions[:3]
IssueRefine ==
    /\ fn = "PHCQASystem.answer_batch"
    /\ ret.outcome = "searching"
    /\ Len(args.questions) > 3
    /\ Len(ret.calls) \in 1..Min(3, Len(args.questions))
    /\ ret' = Searching(Append(ret.calls,
                               SearchCallOf("question", args.questions[Len(ret.calls)],
                                            args.top_k \div 2)))
    /\ UNCHANGED <<fn, args, orchVars, embedVars>>

\* at most 3 questions: the search of the next question
IssueSingle ==
    /\ fn = "PHCQASystem.answer_batch"
    /\ ret.outcome = "searching"
    /\ Len(args.questions) <= 3
    /\ Len(ret.calls) < Len(args.questions)
    /\ ret' = Searching(Append(ret.calls,
                               SearchCallOf("question", args.questions[Len(ret.calls) + 1],
                                            args.top_k)))
    /\ UNCHANGED <<fn, args, orchVars, embedVars>>

\* the loops are over: the call goes on with what it pooled
EndSearching ==
    /\ fn = "PHCQASystem.answer_batch"
    /\ ret.outcome = "searching"
    /\ Len(ret.calls) = SearchesPlanned(args.questions)
    /\ ret' = [outcome |-> "searched", calls |-> ret.calls]
    /\ UNCHANGED <<fn, args, orchVars, embedVars>>

NextPlan == StartSearching \/ IssueCombined \/ IssueRefine \/ IssueSingle \/ EndSearching

SpecPlan == InitPlan /\ [][NextPlan]_vars

\* the keywords of the combined query that come from the question at place i
KeywordsFrom(query, i) == {k \in 1..Len(query) : query[k].question = i}

\* C26: a batch of at most 3 questions issues one search per question, in order,
\* each with top_k; a larger batch issues four searches: the combined query with
\* 2 * top_k, then the first three questions with top_k // 2 each; the combined
\* query has at most 5 keywords of one question and at most 20 in all
C26_SearchPlan ==
    (fn = "PHCQASystem.answer_batch" /\ ret.outcome = "searched")
        => LET n == Len(args.questions)
               calls == ret.calls
           IN /\ n <= 3
                    => /\ Len(calls) = n
                       /\ \A i \in 1..n :
                            calls[i] = SearchCallOf("question", args.questions[i], args.top_k)
              /\ n > 3
                    => /\ Len(calls) = 4
                       /\ calls[1].kind = "combined"
                       /\ calls[1].top_k = 2 * args.top_k
                       /\ \A i \in 1..3 :
                            calls[i + 1] = SearchCallOf("question", args.questions[i],
                                                        args.top_k \div 2)
                       /\ Len(calls[1].query) <= 20
                       /\ \A i \in 1..n : Cardinality(KeywordsFrom(calls[1].query, i)) <= 5

\* five questions with more than 5 important words each: the combined query has 20
\* keywords, 5 of each of the first four questions
C26_Witness ==
    /\ fn = "PHCQASystem.answer_batch" /\ ret.outcome = "searched"
    /\ Len(args.questions) = 5
    /\ \A i \in 1..5 : Len(important_words(args.questions[i])) > 5
    /\ Len(ret.calls) = 4
    /\ Len(ret.calls[1].query) = 20
    /\ KeywordsFrom(ret.calls[1].query, 5) = {}

(***************************************************************************)
(* Two VectorSearcher instances constructed at the same time over the same *)
(* chunks and cache directory.  Each instance takes the steps of           *)
(* _compute_embeddings one by one: the exists() test, the read, the batch  *)
(* calls, open(..., 'wb') (which empties the file) and pickle.dump.  The   *)
(* file is cache_file; the two instances are kept in ret.                  *)
(***************************************************************************)
Instances == {1, 2}

Instance(at, pend, start, embs, hit, faithful) ==
    [pc |-> at, pending |-> pend, batch_start |-> start, embeddings |-> embs,
     hit |-> hit, faithful |-> faithful]
Fresh == Instance("start", <<>>, 0, <<>>, FALSE, TRUE)
Constructing(insts) == [outcome |-> "constructing", inst |-> insts]

\* the batch responses of the two-instance model: one vector per text, one vector
\* too many, or a failed call followed by one call per chunk
ConcurrentOutcomes(size) ==
    {[kind |-> "dict_vectors", n |-> size], [kind |-> "dict_vectors", n |-> size + 1],
     [kind |-> "raise", n |-> 0]}

\* the response has as many vectors as the batch has texts
Faithful(outcome, size) == FallsBack(outcome) \/ outcome.n = size

\* where an instance goes on when it has no cache to load
AfterMiss(n) == IF n = 0 THEN "write" ELSE "embedding"

InitConcurrent ==
    /\ OrchInit /\ EmbedQuiet
    /\ fn = "VectorSearcher x 2"
    /\ args \in [n : 0..MaxChunks]
    /\ ret = Constructing([i \in Instances |-> Fresh])

StepOf(i, next) ==
    /\ fn = "VectorSearcher x 2"
    /\ ret' = Constructing([ret.inst EXCEPT ![i] = next])
    /\ UNCHANGED <<fn, args, orchVars, vs_pc, vs_chunks, embeddings, pending, batch_start,
                   embedCalls, cacheHit, cacheWrites>>

\* cache_file.exists()
CheckExists(i) ==
    /\ fn = "VectorSearcher x 2"
    /\ ret.inst[i].pc = "start"
    /\ StepOf(i, [ret.inst[i] EXCEPT !.pc = IF cache_file.exists THEN "read"
                                            ELSE AfterMiss(args.n)])
    /\ cache_file' = cache_file

\* open(cache_file, 'rb') and pickle.load: the embeddings of a whole file, or an
\* exception that is caught
ReadCache(i) ==
    /\ fn = "VectorSearcher x 2"
    /\ ret.inst[i].pc = "read"
    /\ StepOf(i, IF LoadsFromCache(cache_file)
                 THEN [ret.inst[i] EXCEPT !.pc = "ready", !.hit = TRUE,
                                          !.embeddings = cache_file.embeddings]
                 ELSE [ret.inst[i] EXCEPT !.pc = AfterMiss(args.n)])
    /\ cache_file' = cache_file

\* one pass of the batch loop
EmbedStep(i, outcome, indiv) ==
    /\ fn = "VectorSearcher x 2"
    /\ ret.inst[i].pc = "embedding"
    /\ LET s == ret.inst[i]
           size == Min(BatchSize, args.n - s.batch_start)
           pend == s.pending \o BatchVectors(outcome, s.batch_start + 1, size, indiv)
           last == s.batch_start + BatchSize >= args.n
       IN /\ outcome \in ConcurrentOutcomes(size)
          /\ DOMAIN indiv = 1..size
          /\ StepOf(i, [s EXCEPT !.pending = pend,
                                 !.batch_start = s.batch_start + BatchSize,
                                 !.faithful = s.faithful /\ Faithful(outcome, size),
                                 !.embeddings = IF last THEN pend ELSE s.embeddings,
                                 !.pc = IF last THEN "write" ELSE "embedding"])
    /\ cache_file' = cache_file

\* open(cache_file, 'wb'): the file is there and empty, or open raises
OpenForWrite(i, opens) ==
    /\ fn = "VectorSearcher x 2"
    /\ ret.inst[i].pc = "write"
    /\ StepOf(i, [ret.inst[i] EXCEPT !.pc = IF opens THEN "dump" ELSE "ready"])
    /\ cache_file' = IF opens THEN BrokenFile ELSE cache_file

\* pickle.dump and the close of the file: the file holds what this instance
\* computed, or the dump raised and left a part of it
DumpCache(i, dumps) ==
    /\ fn = "VectorSearcher x 2"
    /\ ret.inst[i].pc = "dump"
    /\ StepOf(i, [ret.inst[i] EXCEPT !.pc = "ready"])
    /\ cache_file' = IF dumps THEN CacheFile(ret.inst[i].embeddings, args.n) ELSE BrokenFile

NextConcurrent ==
    \/ \E i \in Instances : CheckExists(i)
    \/ \E i \in Instances : ReadCache(i)
    \/ \E i \in Instances, outcome \in ConcurrentOutcomes(BatchSize) \cup ConcurrentOutcomes(1),
          indiv \in IndividualOutcomes : EmbedStep(i, outcome, indiv)
    \/ \E i \in Instances, opens \in BOOLEAN : OpenForWrite(i, opens)
    \/ \E i \in Instances, dumps \in BOOLEAN : DumpCache(i, dumps)

SpecConcurrent == InitConcurrent /\ [][NextConcurrent]_vars

\* the instance holds one vector per chunk, in the order of the chunks
OneVectorPerChunk(s, n) ==
    /\ Len(s.embeddings) = n
    /\ \A j \in 1..n : s.embeddings[j].of = j

\* C27: for every interleaving of the steps of two concurrent constructions, each
\* construction ends with exactly one embedding vector per chunk, and a
\* construction that meets a partly written file computes its embeddings itself
C27_ConcurrentConstruction ==
    fn = "VectorSearcher x 2"
        => \A i \in Instances :
              /\ ret.inst[i].pc = "ready" => OneVectorPerChunk(ret.inst[i], args.n)
              /\ (ret.inst[i].pc = "read" /\ ~cache_file.readable)
                     => ~ENABLED (ReadCache(i) /\ ret'.inst[i].hit)

(***************************************************************************)
(* Further claims about PHCQASystem.answer_batch.                          *)
(***************************************************************************)
\* C28: when the searches pooled no chunk and the sponsor context is not blank, the
\* result carries fit_score 0.0 and a non-empty tailoring_explanation and
\* fit_explanation, whatever the other arguments are
C28_NoChunksNoAssessment ==
    (pc = "done" /\ all_chunks = <<>> /\ NonBlank(additional_context))
        => /\ result.outcome = "returned"
           /\ result.shape = "response"
           /\ DOMAIN result.fields =
                 {"tailoring_explanation", "fit_score", "fit_explanation"}
           /\ result.fields["fit_score"] = PyNum(0)
           /\ Truthy(result.fields["tailoring_explanation"])
           /\ Truthy(result.fields["fit_explanation"])

(***************************************************************************)
(* A further claim about get_chunks.                                       *)
(***************************************************************************)
\* C29: no two chunks that get_chunks emits for one document have the same
\* start_line, so that pooling by (path, start_line) drops no chunk whose content
\* differs from the one it keeps
C29_DistinctStartLines ==
    (fn = "get_chunks" /\ ret # NotReturned)
        => \A c, d \in 1..Len(ret.value) :
              ret.value[c].start_line = ret.value[d].start_line => c = d


(***************************************************************************)
(* The answer extraction, one payload on two paths.                        *)
(***************************************************************************)
\* C30: for one and the same JSON payload QAEngine.answer_batch returns the same
\* result whether the backend delivers it in a ```json or plain ``` fence or as
\* bare JSON; with sponsor context the absent fit_score, fit_explanation and
\* tailoring_explanation get the same defaults on both paths.
C30_SameResultBareOrFenced ==
    (/\ pc = "done"
     /\ genCalls > 0
     /\ response.kind = "text"
     /\ IsJson(response.payload)
     /\ HasClosedFence(response))
        => engine_result = EngineReturn(Returns("bare", response.payload), questions,
                                        additional_context)

====
